---- MODULE Spec2Model ----
(***************************************************************************)
(* A model of the autograd core of rovo: the backward Engine               *)
(* (src/src/engine/engine.rs) and the graph-construction helpers           *)
(* (src/src/util_autograd.rs, src/src/tensor/tensor_ops.rs).               *)
(*                                                                         *)
(* Options are modelled as sets with at most one element: None is {} and   *)
(* Some(x) is {x}.  Node identities are natural numbers.                   *)
(***************************************************************************)
EXTENDS Integers, Sequences, FiniteSets, TLC

(***************************************************************************)
(* Bounds                                                                  *)
(***************************************************************************)
\* Nodes other than the GraphRoot in a graph handed to the Engine.
NumNodes == 2
\* Edges of a whole graph (the roots handed to execute included).
MaxTotalEdges == 4
\* Leaf tensors the forward pass starts from.
NumLeaves == 1
\* Tensors alive in a forward pass (leaves and results).
MaxTensors == 2
\* Nodes built in a forward pass (functions and accumulators).
MaxBuilt == 3
\* Parameters of the optimizer's param_groups.
MaxParams == 2
\* Dimensions of a tensor, a stride handed to set_sizes_and_strides, and a
\* storage offset.
MaxDim == 2
MaxStride == 2
MaxOffset == 1
\* The length a view of a shared storage is resized to.
MaxLength == 3
\* Allocations made for one storage.
MaxAllocs == 3
\* The data of a leaf Variable and a seed gradient.
MaxValue == 3
\* TensorImpls that hold a TensorVersion, the counters made for them, and the
\* version a counter is bumped to.
MaxHolders == 3
MaxCounters == 2
MaxVersion == 2
\* Calls of the set_*_mut functions on the TensorOptions a and b.
MaxSets == 1

VARIABLES
    \* ---- the graph under differentiation (read-only during backward) ----
    next_edges,         \* Node -> its EdgeList (GraphRoot: the roots)
    num_seeds,          \* length of the `inputs` handed to Engine::execute
    entry,              \* the public entry point the caller used
    create_graph,       \* GraphTask.grad_mode: the create_graph flag of the call
    mode_before,        \* history: the grad mode the caller made the call under
    \* ---- Engine::compute_dependencies ----
    seen,               \* HashSet<*const Node>
    queue,              \* Vec<*const Node>, the work list
    \* ---- GraphTask ----
    dependencies,       \* HashMap<*const Node, usize>
    outstanding_tasks,  \* usize
    ready_queue,        \* sequence of NodeTask
    \* ---- the worker (thread_main / evaluate_function) ----
    pc,                 \* where the backward call is
    fn_,                \* Option<Node>: the Node of the unit being evaluated
    i,                  \* loop index of evaluate_function
    autograd_mode,      \* the live AutoGradMode guards of thread_main
    \* ---- history (not program state) ----
    applied,            \* Node -> number of calls of its apply function
    delivered,          \* edges <<holder, index>> whose gradient was delivered
    executed,           \* the units executed: <<Node, its input buffer>>
    \* ---- the forward pass (util_autograd.rs, tensor_ops.rs) ----
    grad_mode,          \* GradMode: the process-wide switch
    tensors,            \* tensor id -> its AutogradMeta
    built,              \* Node id -> the Node built in the forward pass
    held,               \* Nodes to which the caller holds a strong reference
    last_call,          \* history: the last call and what it did
    acc_returned,       \* history: tensor id -> Nodes grad_accumulator returned
    \* ---- a forward pass followed by backward ----
    script,             \* the caller's program: leaves, forward calls
    grad,               \* tensor id -> AutogradMeta.grad, once it is populated
    \* ---- Sgd::step ----
    sgd,                \* the frame of the call: position, live guards, parameters
    \* ---- TensorImpl and Storage ----
    impls,              \* the TensorImpls that are views of one Storage
    storage,            \* StorageImpl: nbytes, resizable
    impl_last,          \* history: the last operation on a TensorImpl
    \* ---- Variable and Add (ops.rs) ----
    ops,                \* the Variables a, b and out, and where the caller is
    \* ---- TensorVersion ----
    versions,           \* the counters, the tensors that hold them, history
    \* ---- TensorOptions ----
    options             \* the TensorOptions a and b, a.merge_in(b), history

graphVars  == <<next_edges, num_seeds, entry, create_graph, mode_before>>
depsVars   == <<seen, queue>>
taskVars   == <<dependencies, outstanding_tasks, ready_queue>>
workerVars == <<pc, fn_, i, autograd_mode>>
histVars   == <<applied, delivered, executed>>
engineVars == <<graphVars, depsVars, taskVars, workerVars, histVars>>
metaVars == <<tensors, built, held, last_call, acc_returned>>
autogradVars == <<grad_mode, metaVars>>
\* What the Engine's steps leave alone, and what the forward pass leaves alone.
\* What neither the Engine nor the forward pass touches.
implVars == <<impls, storage, impl_last>>
libVars == <<ops, versions, options>>
sideVars == <<script, sgd, implVars, libVars>>
notEngineVars == <<autogradVars, sideVars, grad>>
notAutogradVars == <<engineVars, sideVars, grad>>
vars == <<next_edges, num_seeds, entry, create_graph, mode_before, seen, queue,
          dependencies, outstanding_tasks, ready_queue, pc, fn_, i, autograd_mode,
          applied, delivered, executed,
          grad_mode, tensors, built, held, last_call, acc_returned, script, grad, sgd,
          impls, storage, impl_last, ops, versions, options>>

None == {}
Some(x) == {x}
Unwrap(o) == CHOOSE x \in o : TRUE

\* The caller runs no program of its own, and no tensor has a grad yet.
NoScript == [leaves |-> 0, calls |-> <<>>]
NoGrad == <<>>

\* No call of Sgd::step was made.
NoStep == [pc |-> "idle"]

\* No Variable and no TensorVersion is looked at.
LibIdle ==
    /\ ops = [pc |-> "idle"]
    /\ versions = [counters |-> <<>>]
    /\ options = [pc |-> "idle"]

\* No TensorImpl is looked at.
ImplIdle ==
    /\ impls = <<>>
    /\ storage = [nbytes |-> 0, resizable |-> TRUE, data_ptr |-> 0, allocs |-> 0, data |-> <<>>]
    /\ impl_last = [op |-> "none", v |-> 0, status |-> "returned"]

\* No forward pass is under way (the state of these variables in a
\* specification of the Engine alone).
ForwardIdle ==
    /\ tensors = <<>>
    /\ built = <<>>
    /\ held = {}
    /\ last_call = [op |-> "none"]
    /\ acc_returned = <<>>
    /\ script = NoScript
    /\ grad = NoGrad
    /\ sgd = NoStep
    /\ ImplIdle
    /\ LibIdle

AutogradIdle == grad_mode = TRUE /\ ForwardIdle

(***************************************************************************)
(* Graphs                                                                  *)
(***************************************************************************)
\* The synthetic root built by Engine::execute.
GraphRoot == 0
Nodes == 0..NumNodes

\* Edge::new(function, input_nr)
Edge(function, input_nr) == [function |-> function, input_nr |-> input_nr]

\* The edges a Node n may hold: to a Node built before it (acyclic), or
\* function-less.  input_nr is the slot set_history assigned, always 0 for
\* the single-output Nodes of tensor_ops and for accumulators.
EdgeChoices(n) == {Edge(None, 0)} \cup {Edge(Some(m), 0) : m \in (n + 1)..NumNodes}

SeqsUpTo(S, len) == UNION {[1..l -> S] : l \in 0..len}

\* Nodes reachable from the root of graph g over function-carrying edges.
RECURSIVE ReachFrom(_, _, _)
ReachFrom(g, frontier, acc) ==
    IF frontier = {} THEN acc
    ELSE LET nxt == UNION {UNION {g[n][k].function : k \in 1..Len(g[n])} : n \in frontier}
         IN ReachFrom(g, nxt \ acc, acc \cup nxt)
Reachable(g) == ReachFrom(g, {GraphRoot}, {GraphRoot})

\* All assignments of edge lists to the Nodes n..NumNodes with at most rem edges.
RECURSIVE GraphsFrom(_, _)
GraphsFrom(n, rem) ==
    IF n > NumNodes THEN {<<>>}
    ELSE UNION {{(n :> s) @@ g : g \in GraphsFrom(n + 1, rem - Len(s))} :
                    s \in SeqsUpTo(EdgeChoices(n), rem)}

\* Finite acyclic graphs; a Node that the root does not reach holds no edges
\* (it plays no part in a backward call).
Graphs == {g \in GraphsFrom(GraphRoot, MaxTotalEdges) :
              \A n \in Nodes \ Reachable(g) : g[n] = <<>>}

\* Node::next_edges(): the edge list, None when the Node holds none.
NextEdgesOf(n) == IF next_edges[n] = <<>> THEN None ELSE Some(next_edges[n])

\* Node::next_edge(i): the i-th outgoing edge (0-based), None past the end.
next_edge(n, k) == IF k < Len(next_edges[n]) THEN Some(next_edges[n][k + 1]) ELSE None

\* Length of the VariableList that Node::call returns: GraphRoot returns the
\* seed gradients, any other Node one gradient per forward input.
NumOutputs(n) == IF n = GraphRoot THEN num_seeds ELSE Len(next_edges[n])

\* Node::num_inputs(): one slot per registered forward output.
num_inputs(n) == IF n = GraphRoot THEN 0 ELSE 1

(***************************************************************************)
(* GraphTask, ReadyQueue, InputBuffer                                      *)
(***************************************************************************)
\* A gradient is represented by the set of edges it was sent over.
Undefined == {}

\* InputBuffer::new_with_size(size)
InputBufferNew(size) == [k \in 1..size |-> Undefined]

\* An InputBuffer::add that drops the gradient.
InputBufferAddNothing(buffer, pos, var) == buffer

\* InputBuffer::add(pos, var), pos 0-based
InputBufferAdd(buffer, pos, var) == [buffer EXCEPT ![pos + 1] = @ \cup var]

\* NodeTask::new(base, fn, inputs)
NodeTask(node, inputs) == [fn_ |-> node, inputs_ |-> inputs]

\* ReadyQueue::push
Push(q, task) == Append(q, task)

\* The sequence q without its k-th element.
RemoveAt(q, k) == [j \in 1..(Len(q) - 1) |-> IF j < k THEN q[j] ELSE q[j + 1]]

\* GraphTask::completed()
completed == outstanding_tasks = 0

(***************************************************************************)
(* Engine::compute_dependencies                                            *)
(***************************************************************************)
\* *(dependencies.entry(l).or_insert(0)) += 1
EntryIncrement(deps, l) ==
    [x \in DOMAIN deps \cup {l} |->
        IF x = l THEN (IF l \in DOMAIN deps THEN deps[l] ELSE 0) + 1 ELSE deps[x]]

\* As VisitEdges, but an edge counts only the first time its target is seen.
RECURSIVE VisitEdgesOnce(_, _, _)
VisitEdgesOnce(edges, k, st) ==
    IF k > Len(edges) THEN st
    ELSE LET t == edges[k] IN
         IF t.function = None THEN VisitEdgesOnce(edges, k + 1, st)
         ELSE LET l == Unwrap(t.function)
                  was_inserted == l \notin st.seen
              IN VisitEdgesOnce(edges, k + 1,
                     [dependencies |-> IF was_inserted
                                       THEN EntryIncrement(st.dependencies, l)
                                       ELSE st.dependencies,
                      seen |-> st.seen \cup {l},
                      queue |-> IF was_inserted THEN Append(st.queue, l) ELSE st.queue])

\* The `for t in next_edges` loop over the edges from index k on.
RECURSIVE VisitEdges(_, _, _)
VisitEdges(edges, k, st) ==
    IF k > Len(edges) THEN st
    ELSE LET t == edges[k] IN
         IF t.function = None THEN VisitEdges(edges, k + 1, st)
         ELSE LET l == Unwrap(t.function)
                  was_inserted == l \notin st.seen
              IN VisitEdges(edges, k + 1,
                     [dependencies |-> EntryIncrement(st.dependencies, l),
                      seen |-> st.seen \cup {l},
                      queue |-> IF was_inserted THEN Append(st.queue, l) ELSE st.queue])

\* One turn of the loop: take a Node off the work list and visit its edges.
\* Vec::pop takes the last element (k = Len(queue)); every other choice of k
\* is a different traversal order.
ComputeDependenciesStep ==
    /\ pc = "compute_dependencies"
    /\ queue # <<>>
    /\ \E k \in 1..Len(queue) :
         LET node == queue[k]
             rest == RemoveAt(queue, k)
             st0  == [dependencies |-> dependencies, seen |-> seen, queue |-> rest]
             st   == IF NextEdgesOf(node) = None THEN st0
                     ELSE VisitEdges(Unwrap(NextEdgesOf(node)), 1, st0)
         IN /\ dependencies' = st.dependencies
            /\ seen' = st.seen
            /\ queue' = st.queue
    /\ UNCHANGED <<notEngineVars, graphVars, outstanding_tasks, ready_queue, workerVars, histVars>>

(***************************************************************************)
(* Engine::execute / execute_with_graph_task                               *)
(***************************************************************************)
\* compute_dependencies breaks out of its loop (work list empty) and
\* execute_with_graph_task queues the root unit.
ExecuteWithGraphTask ==
    /\ pc = "compute_dependencies"
    /\ queue = <<>>
    /\ ready_queue' = Push(ready_queue, NodeTask(GraphRoot, InputBufferNew(0)))
    /\ outstanding_tasks' = outstanding_tasks + 1
    /\ pc' = "thread_main"
    /\ UNCHANGED <<notEngineVars, graphVars, depsVars, dependencies, fn_, i, autograd_mode, histVars>>

(***************************************************************************)
(* Engine::thread_main / evaluate_function                                 *)
(***************************************************************************)
\* AccumulateGrad::apply: the gradient that arrived is added into the grad
\* of the Node's variable.
AccumulateGradApply(g, variable, inputs) ==
    [t \in DOMAIN g \cup {variable} |->
        (IF t \in DOMAIN g THEN g[t] ELSE Undefined) \cup inputs[1]]

\* call_function: Node::call with the unit's inputs.  Of the Nodes'
\* functions only that of an accumulator has an effect on the tensors.
CallFunction(g, node, inputs) ==
    IF node \in DOMAIN built /\ built[node].kind = "AccumulateGrad"
    THEN AccumulateGradApply(g, Unwrap(built[node].variable), inputs)
    ELSE g

\* An AutoGradMode::new that remembers the mode and does not set the new one.
AutoGradModeNewKeepsMode(guards, mode, enabled) == [guards |-> Append(guards, mode), mode |-> mode]

\* AutoGradMode::new(enabled): remembers the mode and sets the new one.
AutoGradModeNew(guards, mode, enabled) == [guards |-> Append(guards, mode), mode |-> enabled]

\* NoGradGuard::default()
NoGradGuardDefault(guards, mode) == AutoGradModeNew(guards, mode, FALSE)

\* Drop of the innermost guard: the mode it remembered is set again.
DropGuard(guards) == [guards |-> SubSeq(guards, 1, Len(guards) - 1), mode |-> guards[Len(guards)]]

\* Unwinding drops every guard of the frame, innermost first: the mode ends
\* as the outermost guard remembered it.
RECURSIVE Unwind(_, _)
Unwind(guards, mode) ==
    IF guards = <<>> THEN mode ELSE Unwind(DropGuard(guards).guards, DropGuard(guards).mode)

\* thread_main pops a unit, sets the grad mode of the GraphTask for the time
\* of the unit, and evaluate_function calls the Node's function.
\* ReadyQueue::pop may hand out any queued unit.
PopUnit ==
    /\ pc = "thread_main"
    /\ ready_queue # <<>>
    /\ \E g \in {AutoGradModeNew(autograd_mode, grad_mode, create_graph)} :
          /\ autograd_mode' = g.guards
          /\ grad_mode' = g.mode
    /\ \E k \in 1..Len(ready_queue) :
         /\ ready_queue' = RemoveAt(ready_queue, k)
         /\ fn_' = Some(ready_queue[k].fn_)
         /\ applied' = [applied EXCEPT ![ready_queue[k].fn_] = @ + 1]
         /\ executed' = executed \cup {<<ready_queue[k].fn_, ready_queue[k].inputs_>>}
         /\ grad' = CallFunction(grad, ready_queue[k].fn_, ready_queue[k].inputs_)
    /\ i' = 0
    /\ pc' = "evaluate_function"
    /\ UNCHANGED <<metaVars, sideVars, graphVars, depsVars, dependencies, outstanding_tasks, delivered>>

InLoop == pc = "evaluate_function" /\ i < NumOutputs(Unwrap(fn_))

\* `if next.is_none() { continue; }`: i is not advanced, so the loop head is
\* reached again with the same i and the same state, forever.
EvalContinue ==
    /\ InLoop
    /\ next_edge(Unwrap(fn_), i) = None
    /\ pc' = "hung"
    /\ UNCHANGED <<notEngineVars, graphVars, depsVars, taskVars, fn_, i, autograd_mode, histVars>>

\* `next.function.as_ref().unwrap()` on an edge without function panics; the
\* unwinding drops the guard of thread_main.
EvalNoFunction ==
    /\ InLoop
    /\ next_edge(Unwrap(fn_), i) # None
    /\ Unwrap(next_edge(Unwrap(fn_), i)).function = None
    /\ pc' = "panicked"
    /\ grad_mode' = Unwind(autograd_mode, grad_mode)
    /\ autograd_mode' = <<>>
    /\ UNCHANGED <<metaVars, sideVars, grad, graphVars, depsVars, taskVars, fn_, i, histVars>>

\* The target Node of output i, when there is one.
Target == Unwrap(Unwrap(next_edge(Unwrap(fn_), i)).function)
HasTarget ==
    /\ InLoop
    /\ next_edge(Unwrap(fn_), i) # None
    /\ Unwrap(next_edge(Unwrap(fn_), i)).function # None

\* As EvalNoEntry, but the output is dropped and the loop goes on.
EvalNoEntrySkipped ==
    /\ HasTarget
    /\ Target \notin DOMAIN dependencies
    /\ i' = i + 1
    /\ UNCHANGED <<notEngineVars, graphVars, depsVars, taskVars, pc, fn_, autograd_mode, histVars>>

\* `if it.is_none() { panic!() }`
EvalNoEntry ==
    /\ HasTarget
    /\ Target \notin DOMAIN dependencies
    /\ pc' = "panicked"
    /\ grad_mode' = Unwind(autograd_mode, grad_mode)
    /\ autograd_mode' = <<>>
    /\ UNCHANGED <<metaVars, sideVars, grad, graphVars, depsVars, taskVars, fn_, i, histVars>>

\* `let mut count = *(it.unwrap()); count -= 1;`: count is a copy of the
\* stored entry; the entry itself is not written.
DecrementedCount(stored) == stored - 1
StoredAfterDecrement(stored) == stored
IsReadyEarly(count) == count <= 1
IsReady(count) == count = 0

\* task.outstanding_tasks += 1
AfterPushForgotten(outstanding) == outstanding
AfterPush(outstanding) == outstanding + 1

\* dependencies.remove_entry(&t)
RemoveEntry(deps, t) == [x \in DOMAIN deps \ {t} |-> deps[x]]

\* Output i is delivered over its edge.
EvalDeliver ==
    /\ HasTarget
    /\ Target \in DOMAIN dependencies
    /\ LET t == Target
           next == Unwrap(next_edge(Unwrap(fn_), i))
           output == {<<Unwrap(fn_), i>>}
           count == DecrementedCount(dependencies[t])
           is_ready == IsReady(count)
           input_buffer == InputBufferAdd(InputBufferNew(num_inputs(t)), next.input_nr, output)
       IN /\ dependencies' = IF is_ready THEN RemoveEntry(dependencies, t)
                             ELSE [dependencies EXCEPT ![t] = StoredAfterDecrement(@)]
          /\ ready_queue' = IF is_ready THEN Push(ready_queue, NodeTask(t, input_buffer))
                            ELSE ready_queue
          /\ outstanding_tasks' = IF is_ready THEN AfterPush(outstanding_tasks)
                                  ELSE outstanding_tasks
    /\ delivered' = delivered \cup {<<Unwrap(fn_), i>>}
    /\ i' = i + 1
    /\ UNCHANGED <<notEngineVars, graphVars, depsVars, pc, fn_, autograd_mode, applied, executed>>

\* `if i >= num_outputs { break; }`; the guard of the unit is dropped at the
\* end of its block, then thread_main retires the unit and leaves its loop
\* when the task is completed.
EvalBreak ==
    /\ pc = "evaluate_function"
    /\ i >= NumOutputs(Unwrap(fn_))
    /\ outstanding_tasks' = outstanding_tasks - 1
    /\ pc' = IF outstanding_tasks - 1 = 0 THEN "returned" ELSE "thread_main"
    /\ fn_' = None
    /\ i' = 0
    /\ autograd_mode' = DropGuard(autograd_mode).guards
    /\ grad_mode' = DropGuard(autograd_mode).mode
    /\ UNCHANGED <<metaVars, sideVars, grad, graphVars, depsVars, dependencies, ready_queue, histVars>>

(***************************************************************************)
(* One backward call on a finite acyclic graph.  The caller enters by      *)
(* Engine::execute, which builds the GraphTask and computes its            *)
(* dependencies, or hands a GraphTask of its own (GraphTask::new, whose    *)
(* dependencies map is empty) straight to the public                       *)
(* Engine::execute_with_graph_task.                                        *)
(***************************************************************************)
EngineInit ==
    /\ next_edges \in Graphs
    /\ num_seeds \in {Len(next_edges[GraphRoot]), Len(next_edges[GraphRoot]) + 1}
    /\ entry \in {"execute", "execute_with_graph_task"}
    /\ create_graph \in BOOLEAN
    /\ grad_mode \in BOOLEAN
    /\ mode_before = grad_mode
    /\ autograd_mode = <<>>
    /\ seen = {}
    /\ queue = IF entry = "execute" THEN <<GraphRoot>> ELSE <<>>
    /\ dependencies = <<>>
    /\ outstanding_tasks = 0
    /\ ready_queue = <<>>
    /\ pc = "compute_dependencies"
    /\ fn_ = None
    /\ i = 0
    /\ applied = [n \in Nodes |-> 0]
    /\ delivered = {}
    /\ executed = {}
    /\ ForwardIdle

EngineNext ==
    \/ ComputeDependenciesStep
    \/ ExecuteWithGraphTask
    \/ PopUnit
    \/ EvalContinue
    \/ EvalNoFunction
    \/ EvalNoEntry
    \/ EvalDeliver
    \/ EvalBreak

EngineSpec == EngineInit /\ [][EngineNext]_vars

\* The worker runs on: thread_main has no blocking step.
EngineFairSpec == EngineSpec /\ WF_vars(EngineNext)

TypeOK ==
    /\ pc \in {"compute_dependencies", "thread_main", "evaluate_function",
               "returned", "panicked", "hung"}
    /\ outstanding_tasks \in Nat
    /\ i \in Nat
    /\ DOMAIN dependencies \subseteq Nodes

(***************************************************************************)
(* Properties of the Engine                                                *)
(***************************************************************************)
\* The edges <<holder, index>> (index 0-based) with target t that the root or
\* a Node reachable from it holds.
EdgesInto(t) ==
    {e \in UNION {{<<n, k - 1>> : k \in 1..Len(next_edges[n])} : n \in Reachable(next_edges)} :
        next_edges[e[1]][e[2] + 1].function = Some(t)}

RECURSIVE SumOver(_, _)
SumOver(f, S) ==
    IF S = {} THEN 0
    ELSE LET x == CHOOSE y \in S : TRUE IN f[x] + SumOver(f, S \ {x})

DependenciesComputed ==
    entry = "execute" /\ pc = "compute_dependencies" /\ queue = <<>>

\* C1: when compute_dependencies has emptied its work list, whatever the
\* order in which it was popped, the entry of every Node is the number of
\* function-carrying edges into it held by the root or a reachable Node, the
\* entries sum to the number of such edges, and a Node without incoming edge
\* (the root among them) has no entry.
C1_DependenciesAreInDegrees ==
    DependenciesComputed =>
        /\ DOMAIN dependencies = {n \in Nodes : EdgesInto(n) # {}}
        /\ \A n \in DOMAIN dependencies : dependencies[n] = Cardinality(EdgesInto(n))
        /\ SumOver(dependencies, DOMAIN dependencies)
             = Cardinality(UNION {EdgesInto(n) : n \in Nodes})
        /\ GraphRoot \notin DOMAIN dependencies
        /\ seen = Reachable(next_edges) \ {GraphRoot}

C1_Witness ==
    /\ DependenciesComputed
    /\ \E n \in DOMAIN dependencies : dependencies[n] = 2
    /\ \E n \in DOMAIN dependencies : dependencies[n] = 1
    /\ GraphRoot \notin DOMAIN dependencies

Returned == entry = "execute" /\ pc = "returned"

\* C2: when Engine::execute returns, the dependencies map is empty and
\* outstanding_tasks is 0.
C2_DependenciesEmptyOnReturn ==
    Returned => dependencies = <<>> /\ outstanding_tasks = 0

\* C3: Engine::execute returns on every finite acyclic graph.
C3_ExecuteReturns ==
    entry = "execute" => <>(pc = "returned")

\* C4: when Engine::execute returns, the apply function of every Node
\* reachable from the root, the root included, has been called exactly once.
C4_EveryNodeAppliedOnce ==
    Returned => \A n \in Reachable(next_edges) : applied[n] = 1

\* The Nodes that have been pushed to the ready queue so far.
Pushed ==
    {ready_queue[k].fn_ : k \in 1..Len(ready_queue)} \cup fn_
        \cup {n \in Nodes : applied[n] > 0}

\* C5: a Node that has been pushed to the ready queue (queued, being
\* evaluated or already executed) has had the gradient of every edge into it
\* delivered, each by a predecessor that has executed.
C5_PushedAfterAllPredecessors ==
    \A t \in Pushed \ {GraphRoot} :
        \A e \in EdgesInto(t) : e \in delivered /\ applied[e[1]] >= 1

C5_Witness ==
    /\ \E k \in 1..Len(ready_queue) :
          /\ ready_queue[k].fn_ # GraphRoot
          /\ EdgesInto(ready_queue[k].fn_) \subseteq delivered
    /\ \E t \in Nodes : Cardinality(EdgesInto(t)) >= 2 /\ t \notin Pushed
                        /\ EdgesInto(t) \cap delivered # {}

C7_MissingEntryPanics ==
    [][ /\ (HasTarget /\ Target \notin DOMAIN dependencies) =>
              (pc' = "panicked" /\ UNCHANGED taskVars)
        /\ pc = "panicked" => pc' = "panicked" ]_vars

C7_Witness ==
    /\ pc = "panicked"
    /\ fn_ # None
    /\ i < NumOutputs(Unwrap(fn_))
    /\ next_edge(Unwrap(fn_), i) # None
    /\ Unwrap(next_edge(Unwrap(fn_), i)).function # None
    /\ Target \notin DOMAIN dependencies
    /\ outstanding_tasks = 1
    /\ ready_queue = <<>>

(***************************************************************************)
(* Autograd metadata of tensors                                            *)
(***************************************************************************)
\* No Engine is running (the state of the Engine's variables in a
\* specification of the forward pass alone).
EngineIdle ==
    /\ next_edges = <<>>
    /\ num_seeds = 0
    /\ entry = "none"
    /\ create_graph = FALSE
    /\ mode_before = TRUE
    /\ autograd_mode = <<>>
    /\ seen = {}
    /\ queue = <<>>
    /\ dependencies = <<>>
    /\ outstanding_tasks = 0
    /\ ready_queue = <<>>
    /\ pc = "idle"
    /\ fn_ = None
    /\ i = 0
    /\ applied = <<>>
    /\ delivered = {}
    /\ executed = {}

\* A tensor without autograd metadata (TensorImpl::new: autogradmeta: None).
NoMeta ==
    [autograd_meta |-> FALSE, requires_grad |-> FALSE, grad_fn |-> None,
     output_nr |-> 0, grad_accumulator |-> None]

\* AutogradMetaFactory::make()
DefaultMeta == [NoMeta EXCEPT !.autograd_meta = TRUE]

\* TensorHook::materialize_autograd_meta
MaterializeAutogradMeta(meta) == IF meta.autograd_meta THEN meta ELSE DefaultMeta

\* AutogradMeta::requires_grad(): set by the user, or implied by a grad_fn.
MetaRequiresGrad(meta) == meta.requires_grad \/ meta.grad_fn # None

\* TensorImpl::requires_grad
RequiresGrad(ts, t) == IF ts[t].autograd_meta THEN MetaRequiresGrad(ts[t]) ELSE FALSE

\* TensorHook::grad_fn
GradFn(ts, t) == IF ts[t].autograd_meta THEN ts[t].grad_fn ELSE None

\* The `for t in tensors` loop of compute_requires_grad from index k on.
RECURSIVE AnyRequiresGrad(_, _, _, _)
AnyRequiresGrad(ts, inputs, k, out) ==
    IF k > Len(inputs) THEN out
    ELSE AnyRequiresGrad(ts, inputs, k + 1,
                         IF RequiresGrad(ts, inputs[k]) THEN TRUE ELSE out)

\* As compute_requires_grad, without the test of GradMode::is_enabled().
RequiresGradWhateverMode(mode, ts, inputs) == AnyRequiresGrad(ts, inputs, 1, FALSE)

\* compute_requires_grad(tensors)
compute_requires_grad(mode, ts, inputs) ==
    IF ~mode THEN FALSE ELSE AnyRequiresGrad(ts, inputs, 1, FALSE)

(***************************************************************************)
(* Nodes built in the forward pass and their reference counts              *)
(***************************************************************************)
\* Node::new(AccumulateGrad::new(tensor)): no edges, one input slot.
AccumulateGradNode(t) ==
    [kind |-> "AccumulateGrad", next_edges |-> <<>>, input_metadata |-> 1,
     variable |-> Some(t)]

\* Node::new(<Op>Backward { next_edges, input_metadata_: [] })
FunctionNode(edges) ==
    [kind |-> "Function", next_edges |-> edges, input_metadata |-> 0,
     variable |-> None]

\* The Nodes with a strong reference: those the caller (refs) or a tensor's
\* grad_fn holds, and those an edge of such a Node holds.
RECURSIVE AliveFrom(_, _, _)
AliveFrom(ns, frontier, acc) ==
    IF frontier = {} THEN acc
    ELSE LET nxt == UNION {UNION {ns[n].next_edges[k].function :
                                     k \in 1..Len(ns[n].next_edges)} : n \in frontier}
         IN AliveFrom(ns, nxt \ acc, acc \cup nxt)
Alive(ts, ns, refs) ==
    LET roots == refs \cup UNION {ts[t].grad_fn : t \in 1..Len(ts)}
    IN AliveFrom(ns, roots, roots)

\* Weak::upgrade
Upgrade(ts, ns, refs, weak) ==
    IF weak # None /\ Unwrap(weak) \in Alive(ts, ns, refs) THEN weak ELSE None

\* meta.grad_accumulator_ = Some(Rc::downgrade(&result))
MemoizeNothing(ts, t, node) == ts
Memoize(ts, t, node) == [ts EXCEPT ![t].grad_accumulator = Some(node)]

\* A grad_accumulator that builds and memoizes an accumulator for whatever
\* tensor it is given.
GradAccumulatorOfAny(ts, ns, refs, t) ==
    [panicked |-> FALSE, result |-> Some(Len(ns) + 1), reused |-> FALSE,
     tensors |-> Memoize(ts, t, Len(ns) + 1),
     built |-> Append(ns, AccumulateGradNode(t))]

\* grad_accumulator(tensor); refs are the strong references held outside the
\* tensors and Nodes at the time of the call.
GradAccumulatorOf(ts, ns, refs, t) ==
    LET out(panicked, result, reused, ts1, ns1) ==
            [panicked |-> panicked, result |-> result, reused |-> reused,
             tensors |-> ts1, built |-> ns1]
    IN IF ~ts[t].autograd_meta THEN out(FALSE, None, FALSE, ts, ns)
       ELSE IF ts[t].grad_fn # None THEN out(TRUE, None, FALSE, ts, ns)
       ELSE IF ~ts[t].requires_grad THEN out(FALSE, None, FALSE, ts, ns)
       ELSE LET acc_ == Upgrade(ts, ns, refs, ts[t].grad_accumulator) IN
            IF acc_ # None THEN out(FALSE, acc_, TRUE, ts, ns)
            ELSE LET result == Len(ns) + 1
                 IN out(FALSE, Some(result), FALSE, Memoize(ts, t, result),
                        Append(ns, AccumulateGradNode(t)))

\* As gradient_edge, but without the test for a grad_fn: every tensor is
\* treated as a leaf.
GradientEdgeOfLeaf(ts, ns, refs, t) ==
    LET r == GradAccumulatorOf(ts, ns, refs, t)
    IN [edge |-> Edge(r.result, 0), tensors |-> r.tensors, built |-> r.built]

\* gradient_edge(tensor)
GradientEdge(ts, ns, refs, t) ==
    IF GradFn(ts, t) # None
    THEN [edge |-> Edge(GradFn(ts, t), ts[t].output_nr), tensors |-> ts, built |-> ns]
    ELSE LET r == GradAccumulatorOf(ts, ns, refs, t)
         IN [edge |-> Edge(r.result, 0), tensors |-> r.tensors, built |-> r.built]

\* collect_next_edges(tensors): the loop from input k on; the edges pushed
\* so far hold their Nodes.
RECURSIVE CollectNextEdges(_, _, _, _, _, _)
CollectNextEdges(ts, ns, refs, inputs, k, next) ==
    IF k > Len(inputs) THEN [edges |-> next, tensors |-> ts, built |-> ns]
    ELSE LET pinned == UNION {next[j].function : j \in 1..Len(next)}
             r == GradientEdge(ts, ns, refs \cup pinned, inputs[k])
         IN CollectNextEdges(r.tensors, r.built, refs, inputs, k + 1, Append(next, r.edge))

\* set_history(tensor, grad_fn): add_input_metadata hands out the next slot,
\* set_gradient_edge stores the Node and the slot in the tensor's metadata.
SetHistory(ts, ns, t, grad_fn) ==
    LET output_nr == ns[grad_fn].input_metadata
    IN [tensors |-> [ts EXCEPT ![t] = [MaterializeAutogradMeta(@) EXCEPT
                                          !.grad_fn = Some(grad_fn),
                                          !.output_nr = output_nr]],
        built |-> [ns EXCEPT ![grad_fn].input_metadata = @ + 1],
        output_nr |-> output_nr]

(***************************************************************************)
(* The forward operations of tensor_ops.rs                                 *)
(***************************************************************************)
UnaryOps == {"neg", "transpose", "transpose_", "t", "mean", "sum",
             "sum_dim_int_list", "sigmoid", "_log_softmax"}
BinaryOps == {"add", "mul", "sub", "div", "mm"}
TernaryOps == {"addmm"}
\* (input, target) or (input, target, weight)
LossOps == {"binary_cross_entropy", "nll_loss_forward"}
ForwardOps == UnaryOps \cup BinaryOps \cup TernaryOps \cup LossOps

\* The tensor operands an operation may be called with.
Operands(op) ==
    LET T == 1..Len(tensors) IN
    IF op \in UnaryOps THEN [1..1 -> T]
    ELSE IF op \in BinaryOps THEN [1..2 -> T]
    ELSE IF op \in TernaryOps THEN [1..3 -> T]
    ELSE [1..2 -> T] \cup [1..3 -> T]

\* The operands handed to compute_requires_grad and collect_next_edges.
DiffInputs(op, args) == IF op \in LossOps THEN <<args[1]>> ELSE args

\* check_no_requires_grad(tensor, name) panics
CheckNoRequiresGradFails(ts, t) == RequiresGrad(ts, t)

\* The check_no_requires_grad calls of an operation: binary_cross_entropy
\* checks target and weight, nll_loss_forward the weight only.
ChecksFail(op, ts, args) ==
    IF op = "binary_cross_entropy"
    THEN \/ CheckNoRequiresGradFails(ts, args[2])
         \/ (Len(args) = 3 /\ CheckNoRequiresGradFails(ts, args[3]))
    ELSE IF op = "nll_loss_forward"
    THEN Len(args) = 3 /\ CheckNoRequiresGradFails(ts, args[3])
    ELSE FALSE

\* native::transpose_ works in place and returns its operand.
InPlace(op) == op = "transpose_"

\* The tensor an operation hands to set_history: its result, except that
\* mean hands over its operand self_.
HistoryTensor(op, args, result) == IF op = "mean" THEN args[1] ELSE result

\* The shapes of forward operation in tensor_ops.rs; operations of one
\* shape differ in the kernel they call and in what their Node saves only.
Shape(op) ==
    IF op \in {"mean", "transpose_", "binary_cross_entropy", "nll_loss_forward"} THEN op
    ELSE IF op \in UnaryOps THEN "unary"
    ELSE IF op \in BinaryOps THEN "binary"
    ELSE "ternary"

\* The record of a call kept in last_call: the shape of the operation (or
\* "grad_accumulator" with its tensor), how it ended, the grad mode it ran
\* under, whether any differentiable operand required grad, what
\* compute_requires_grad returned, the tensor returned and its metadata
\* before set_history, the Node built, the set_history calls made, the
\* number of Nodes built (accumulators included), whether
\* grad_accumulator found its memoized Node alive, the call of
\* collect_next_edges made (its inputs as they were, the edges it returned),
\* and whether the target or the weight of a loss required grad.
CallRecord(op, tensor, status, mode, any_requires, requires, result, result_before, grad_fn, history, new_nodes, reused, collected, barred) ==
    [op |-> op, tensor |-> tensor, status |-> status, grad_mode |-> mode,
     any_requires |-> any_requires, requires |-> requires, result |-> result,
     result_before |-> result_before, grad_fn |-> grad_fn, history |-> history,
     new_nodes |-> new_nodes, reused |-> reused, collected |-> collected,
     barred |-> barred]

\* Whether an operand of a loss other than its input (the target, the
\* weight when one is given) requires grad.
NonDiffOperandRequiresGrad(op, ts, args) ==
    op \in LossOps /\ \E k \in 2..Len(args) : RequiresGrad(ts, args[k])

\* No call of collect_next_edges was made.
NotCollected == [called |-> FALSE, inputs |-> <<>>, edges |-> <<>>]

\* collect_next_edges(inputs) was called on tensors ts and returned edges.
Collected(ts, inputs, edges) ==
    [called |-> TRUE,
     inputs |-> [k \in 1..Len(inputs) |-> [tensor |-> inputs[k], before |-> ts[inputs[k]]]],
     edges |-> edges]

NoCall ==
    CallRecord("none", None, "ok", TRUE, FALSE, FALSE, None, NoMeta, None, <<>>, 0, FALSE, NotCollected, FALSE)

\* Whether some differentiable operand of the call requires grad.
AnyOperandRequiresGrad(ts, inputs) == \E k \in 1..Len(inputs) : RequiresGrad(ts, inputs[k])

\* The accumulators that the gradient_edge calls of an operation returned:
\* input k took the accumulator path when it had no grad_fn.
ReturnedTo(ts, inputs, edges, t) ==
    UNION {edges[k].function : k \in {j \in 1..Len(inputs) :
                                         inputs[j] = t /\ GradFn(ts, t) = None}}

\* As BuildGradFn, but as if the history of the first operand were set
\* before its edge is collected: that edge then leads to the new Node itself.
BuildGradFnAfterHistory(requires, ts, ns, refs, inputs) ==
    IF requires
    THEN LET col == CollectNextEdges(ts, ns, refs, inputs, 1, <<>>)
             edges == [col.edges EXCEPT ![1] = Edge(Some(Len(col.built) + 1), 0)]
         IN [grad_fn |-> Some(Len(col.built) + 1), edges |-> edges,
             tensors |-> col.tensors,
             built |-> Append(col.built, FunctionNode(edges))]
    ELSE [grad_fn |-> None, edges |-> <<>>, tensors |-> ts, built |-> ns]

\* The body of a forward operation up to the kernel call: the Node, when one
\* is needed, with its edges.
BuildGradFn(requires, ts, ns, refs, inputs) ==
    IF requires
    THEN LET col == CollectNextEdges(ts, ns, refs, inputs, 1, <<>>)
         IN [grad_fn |-> Some(Len(col.built) + 1), edges |-> col.edges,
             tensors |-> col.tensors,
             built |-> Append(col.built, FunctionNode(col.edges))]
    ELSE [grad_fn |-> None, edges |-> <<>>, tensors |-> ts, built |-> ns]

\* The tail of a forward operation: `if grad_fn.is_some() { set_history(..) }`.
SetHistoryIfSome(ts, ns, target, grad_fn) ==
    IF grad_fn # None
    THEN LET h == SetHistory(ts, ns, target, Unwrap(grad_fn))
         IN [tensors |-> h.tensors, built |-> h.built,
             history |-> <<[tensor |-> target, grad_fn |-> Unwrap(grad_fn),
                            output_nr |-> h.output_nr]>>]
    ELSE [tensors |-> ts, built |-> ns, history |-> <<>>]

\* A forward operation that returns, in a pass of at most max_tensors
\* tensors and max_built Nodes.
ForwardWithin(op, args, max_tensors, max_built) ==
    /\ InPlace(op) \/ Len(tensors) < max_tensors
    /\ ~ChecksFail(op, tensors, args)
    /\ \E requires \in {compute_requires_grad(grad_mode, tensors, DiffInputs(op, args))} :
       \E b \in {BuildGradFn(requires, tensors, built, held, DiffInputs(op, args))} :
       \E ts1 \in {IF InPlace(op) THEN b.tensors ELSE Append(b.tensors, NoMeta)} :
       \E result \in {IF InPlace(op) THEN args[1] ELSE Len(ts1)} :
       \E h \in {SetHistoryIfSome(ts1, b.built, HistoryTensor(op, args, result), b.grad_fn)} :
          /\ Len(b.built) <= max_built
          /\ tensors' = h.tensors
          /\ built' = h.built
          /\ acc_returned' =
               [t \in 1..Len(ts1) |->
                   IF t <= Len(tensors)
                   THEN acc_returned[t] \cup
                          (IF requires
                           THEN ReturnedTo(tensors, DiffInputs(op, args), b.edges, t)
                           ELSE {})
                   ELSE {}]
          /\ last_call' = CallRecord(Shape(op), None, "ok", grad_mode,
                                     AnyOperandRequiresGrad(tensors, DiffInputs(op, args)),
                                     requires, Some(result), ts1[result], b.grad_fn,
                                     h.history, Len(b.built) - Len(built), FALSE,
                                     IF requires
                                     THEN Collected(tensors, DiffInputs(op, args), b.edges)
                                     ELSE NotCollected,
                                     NonDiffOperandRequiresGrad(op, tensors, args))
    /\ UNCHANGED <<notAutogradVars, grad_mode, held>>

Forward(op, args) == ForwardWithin(op, args, MaxTensors, MaxBuilt)

\* A forward operation that panics in check_no_requires_grad.
ForwardPanics(op, args) ==
    /\ ChecksFail(op, tensors, args)
    /\ last_call' = CallRecord(Shape(op), None, "panicked", grad_mode,
                               AnyOperandRequiresGrad(tensors, DiffInputs(op, args)),
                               compute_requires_grad(grad_mode, tensors, DiffInputs(op, args)),
                               None, NoMeta, None, <<>>, 0, FALSE, NotCollected,
                               NonDiffOperandRequiresGrad(op, tensors, args))
    /\ UNCHANGED <<notAutogradVars, grad_mode, tensors, built, held, acc_returned>>

\* The caller asks for the accumulator of tensor t and keeps the reference.
GradAccumulator(t) ==
    \E r \in {GradAccumulatorOf(tensors, built, held, t)} :
    /\ Len(r.built) <= MaxBuilt
    /\ tensors' = r.tensors
    /\ built' = r.built
    /\ held' = held \cup r.result
    /\ acc_returned' = [acc_returned EXCEPT ![t] = @ \cup r.result]
    /\ last_call' = CallRecord("grad_accumulator", Some(t),
                               IF r.panicked THEN "panicked" ELSE "ok", grad_mode, FALSE,
                               FALSE, r.result, NoMeta, None, <<>>,
                               Len(r.built) - Len(built), r.reused, NotCollected, FALSE)
    /\ UNCHANGED <<notAutogradVars, grad_mode>>

\* The caller drops its reference to Node n.
DropReference(n) ==
    /\ n \in held
    /\ held' = held \ {n}
    /\ last_call' = NoCall
    /\ UNCHANGED <<notAutogradVars, grad_mode, tensors, built, acc_returned>>

\* GradMode::set_enabled(enabled)
SetGradMode(enabled) ==
    /\ grad_mode # enabled
    /\ grad_mode' = enabled
    /\ last_call' = NoCall
    /\ UNCHANGED <<notAutogradVars, tensors, built, held, acc_returned>>

\* Leaf tensors as the user creates them: without autograd metadata, or with
\* requires_grad set either way.
LeafChoices == {NoMeta, DefaultMeta, [DefaultMeta EXCEPT !.requires_grad = TRUE]}

AutogradInit ==
    /\ EngineIdle
    /\ grad_mode = TRUE
    /\ tensors \in [1..NumLeaves -> LeafChoices]
    /\ built = <<>>
    /\ held = {}
    /\ last_call = NoCall
    /\ acc_returned = [t \in 1..NumLeaves |-> {}]
    /\ script = NoScript
    /\ grad = NoGrad
    /\ sgd = NoStep
    /\ ImplIdle
    /\ LibIdle

AutogradNext ==
    \/ \E op \in ForwardOps : \E args \in Operands(op) : Forward(op, args)
    \/ \E op \in LossOps : \E args \in Operands(op) : ForwardPanics(op, args)
    \/ \E t \in 1..Len(tensors) : GradAccumulator(t)
    \/ \E n \in held : DropReference(n)
    \/ \E enabled \in BOOLEAN : SetGradMode(enabled)

AutogradSpec == AutogradInit /\ [][AutogradNext]_vars

(***************************************************************************)
(* Properties of the forward pass                                          *)
(***************************************************************************)
Tensors == 1..Len(tensors)
LiveNodes == Alive(tensors, built, held)

\* The last call was a forward operation of tensor_ops.
ForwardCalled == last_call.op \notin {"none", "grad_accumulator"}
ForwardReturned == ForwardCalled /\ last_call.status = "ok"

\* C8 as stated: all the accumulators that grad_accumulator ever returned
\* for a tensor, whatever was dropped in between, are one Node.
C8_SameAccumulatorAlways ==
    \A t \in Tensors : Cardinality(acc_returned[t]) <= 1

\* C8 as amended: an accumulator returned for a tensor and still referenced
\* is the memoized one, so every call made while an earlier result is
\* alive returned that same Node.
C8_SameAccumulatorWhileAlive ==
    \A t \in Tensors :
        /\ Cardinality(acc_returned[t] \cap LiveNodes) <= 1
        /\ \A n \in acc_returned[t] \cap LiveNodes :
              /\ tensors[t].grad_accumulator = Some(n)
              /\ built[n].kind = "AccumulateGrad"
              /\ built[n].variable = Some(t)

C8_Witness ==
    /\ last_call.op = "grad_accumulator"
    /\ last_call.status = "ok"
    /\ last_call.reused
    /\ last_call.result # None
    /\ last_call.result \subseteq held
    /\ acc_returned[Unwrap(last_call.tensor)] \cap LiveNodes = last_call.result

\* C9: when a forward operation built a Node, set_history was called once,
\* on the tensor returned, which carries that Node as grad_fn and the slot
\* add_input_metadata returned as output_nr.
C9_HistoryOnResult ==
    (ForwardReturned /\ last_call.grad_fn # None) =>
        LET result == Unwrap(last_call.result) IN
        /\ Len(last_call.history) = 1
        /\ last_call.history[1].tensor = result
        /\ tensors[result].grad_fn = last_call.grad_fn
        /\ tensors[result].output_nr = last_call.history[1].output_nr

RequiresGradIffModeAndOperand ==
    ForwardCalled =>
        (last_call.requires <=> (last_call.grad_mode /\ last_call.any_requires))

\* C10 as stated: compute_requires_grad is true exactly when grad mode is
\* enabled and an operand requires grad, and when it is false the operation
\* builds no Node, no accumulator, and returns a tensor without grad_fn.
C10_NoGradNoGradFn ==
    /\ RequiresGradIffModeAndOperand
    /\ (ForwardReturned /\ ~last_call.requires) =>
          /\ last_call.new_nodes = 0
          /\ last_call.grad_fn = None
          /\ tensors[Unwrap(last_call.result)].grad_fn = None

\* C10 as amended: ... when it is false the operation builds no Node, no
\* accumulator and sets no history: the tensor returned has the metadata it
\* had before the call, which is no grad_fn for every operation but the
\* in-place transpose_, whose result is its operand.
C10_NoGradNothingBuilt ==
    /\ RequiresGradIffModeAndOperand
    /\ (ForwardReturned /\ ~last_call.requires) =>
          /\ last_call.new_nodes = 0
          /\ last_call.grad_fn = None
          /\ last_call.history = <<>>
          /\ tensors[Unwrap(last_call.result)] = last_call.result_before
          /\ last_call.op # "transpose_" =>
                tensors[Unwrap(last_call.result)].grad_fn = None

C10_Witness ==
    /\ ForwardReturned
    /\ last_call.op = "transpose_"
    /\ ~last_call.requires
    /\ last_call.any_requires
    /\ tensors[Unwrap(last_call.result)].grad_fn # None

(***************************************************************************)
(* A forward pass followed by backward: the caller runs a program of       *)
(* forward calls on its leaves and then calls backward on the tensor the   *)
(* last call returned.  Tensors are numbered as they are created: the      *)
(* leaves first, then the result of each call.                             *)
(***************************************************************************)
Call(op, args) == [op |-> op, args |-> args]

\* F::linear(x, ws, bs) on leaves x = 1, ws = 2, bs = 3: the transposed
\* weight is tensor 4, the output tensor 5.
Linear == <<Call("t", <<2>>), Call("addmm", <<3, 1, 4>>)>>

\* y = mean(sigmoid(linear(x)))
MeanSigmoidLinear ==
    [leaves |-> 3, calls |-> Linear \o <<Call("sigmoid", <<5>>), Call("mean", <<6>>)>>]
\* y = sum(sigmoid(linear(x)))
SumSigmoidLinear ==
    [leaves |-> 3, calls |-> Linear \o <<Call("sigmoid", <<5>>), Call("sum", <<6>>)>>]
\* y = mean(x)
MeanOnly == [leaves |-> 1, calls |-> <<Call("mean", <<1>>)>>]
\* y = x + x
AddSelf == [leaves |-> 1, calls |-> <<Call("add", <<1, 1>>)>>]
\* y = sum(x * x)
SumMulSelf == [leaves |-> 1, calls |-> <<Call("mul", <<1, 1>>), Call("sum", <<2>>)>>]
\* y = a + b
AddTwo == [leaves |-> 2, calls |-> <<Call("add", <<1, 2>>)>>]

Programs == {MeanSigmoidLinear, SumSigmoidLinear, MeanOnly, AddSelf, SumMulSelf, AddTwo}

\* The next call of the program (none of the programs works in place, so
\* every call made has added a tensor).
Position == Len(tensors) - script.leaves + 1
ScriptSize == script.leaves + Len(script.calls)

\* The caller makes the next forward call of its program.
ForwardStep ==
    /\ pc = "idle"
    /\ Position \in 1..Len(script.calls)
    /\ ForwardWithin(script.calls[Position].op, script.calls[Position].args,
                     ScriptSize, ScriptSize)

\* backward(&[y], seeds): one root edge, gradient_edge(y), paired with one
\* seed gradient, handed to Engine::execute, which builds the GraphRoot and
\* a GraphTask and starts compute_dependencies.
Backward ==
    /\ pc = "idle"
    /\ Position = Len(script.calls) + 1
    /\ \E r \in {GradientEdge(tensors, built, held, Len(tensors))} :
          /\ tensors' = r.tensors
          /\ built' = r.built
          /\ held' = held \cup r.edge.function
          /\ next_edges' = [n \in 0..Len(r.built) |->
                               IF n = GraphRoot THEN <<r.edge>> ELSE r.built[n].next_edges]
          /\ applied' = [n \in 0..Len(r.built) |-> 0]
    /\ executed' = {}
    /\ num_seeds' = 1
    /\ entry' = "execute"
    /\ create_graph' \in BOOLEAN
    /\ mode_before' = grad_mode
    /\ seen' = {}
    /\ queue' = <<GraphRoot>>
    /\ pc' = "compute_dependencies"
    /\ UNCHANGED <<taskVars, fn_, i, autograd_mode, delivered, grad_mode, last_call, acc_returned, sideVars, grad>>

BackwardInit ==
    /\ EngineIdle
    /\ grad_mode = TRUE
    /\ script \in Programs
    /\ tensors \in [1..script.leaves -> LeafChoices]
    /\ built = <<>>
    /\ held = {}
    /\ last_call = NoCall
    /\ acc_returned = [t \in 1..script.leaves |-> {}]
    /\ grad = NoGrad
    /\ sgd = NoStep
    /\ ImplIdle
    /\ LibIdle

\* The steps of a backward call after a forward pass.  compute_dependencies
\* has given every target an entry and the root has one seed per edge, so
\* the Engine's steps for a missing entry and a missing edge have no part.
BackwardNext ==
    \/ ForwardStep
    \/ Backward
    \/ ComputeDependenciesStep
    \/ ExecuteWithGraphTask
    \/ PopUnit
    \/ EvalNoFunction
    \/ EvalDeliver
    \/ EvalBreak

BackwardSpec == BackwardInit /\ [][BackwardNext]_vars

\* The caller and the worker run on.
BackwardFairSpec == BackwardSpec /\ WF_vars(BackwardNext)

(***************************************************************************)
(* Sgd::step (src/src/optim/mod.rs).  The frame in sgd holds the position  *)
(* of the call, the guards alive in it (each the mode it will restore,     *)
(* innermost last), the closure given, which parameters have a grad, and   *)
(* as history the mode before the call, the mode the closure was started   *)
(* under and the modes the updates ran under.                              *)
(***************************************************************************)
\* What a caller may hand to step as closure.
Closures == {"none", "returns", "panics"}

\* `let mut loss = ..; let _guard = NoGradGuard::default();`
SgdStep(closure, params) ==
    /\ sgd.pc \in {"idle", "returned", "panicked"}
    /\ \E g \in {NoGradGuardDefault(<<>>, grad_mode)} :
          /\ grad_mode' = g.mode
          /\ sgd' = [pc |-> "entered", guards |-> g.guards, closure |-> closure,
                     params |-> params, k |-> 1, before |-> grad_mode,
                     closure_mode |-> None, update_modes |-> {}]
    /\ UNCHANGED <<engineVars, script, implVars, libVars, grad, tensors, built, held, last_call, acc_returned>>

\* As EnterClosure, without the guard `_mode`.
EnterClosureUnguarded(guards, mode) == [guards |-> guards, mode |-> mode]

\* `let _mode = AutoGradMode::new(true);` at the head of the `if let` block.
EnterClosure(guards, mode) == AutoGradModeNew(guards, mode, TRUE)

\* `if let Some(mut fn_) = closure { let _mode = ..; loss = fn_(); ..`
SgdClosureStarts ==
    /\ sgd.pc = "entered"
    /\ sgd.closure # "none"
    /\ \E g \in {EnterClosure(sgd.guards, grad_mode)} :
          /\ grad_mode' = g.mode
          /\ sgd' = [sgd EXCEPT !.pc = "closure", !.guards = g.guards,
                                !.closure_mode = Some(g.mode)]
    /\ UNCHANGED <<engineVars, script, implVars, libVars, grad, tensors, built, held, last_call, acc_returned>>

\* The closure is free to switch the grad mode (GradMode::set_enabled).
SgdClosureSetsMode(enabled) ==
    /\ sgd.pc = "closure"
    /\ grad_mode # enabled
    /\ grad_mode' = enabled
    /\ UNCHANGED <<engineVars, sideVars, grad, tensors, built, held, last_call, acc_returned>>

\* The closure returns the loss; `_mode` is dropped at the end of the block.
SgdClosureReturns ==
    /\ sgd.pc = "closure"
    /\ sgd.closure = "returns"
    /\ grad_mode' = DropGuard(sgd.guards).mode
    /\ sgd' = [sgd EXCEPT !.pc = "update", !.guards = DropGuard(sgd.guards).guards]
    /\ UNCHANGED <<engineVars, script, implVars, libVars, grad, tensors, built, held, last_call, acc_returned>>

\* The closure panics; unwinding drops `_mode` and `_guard`.
SgdClosurePanics ==
    /\ sgd.pc = "closure"
    /\ sgd.closure = "panics"
    /\ grad_mode' = Unwind(sgd.guards, grad_mode)
    /\ sgd' = [sgd EXCEPT !.pc = "panicked", !.guards = <<>>]
    /\ UNCHANGED <<engineVars, script, implVars, libVars, grad, tensors, built, held, last_call, acc_returned>>

\* `if let Some(..) = closure` with None: the block is skipped.
SgdNoClosure ==
    /\ sgd.pc = "entered"
    /\ sgd.closure = "none"
    /\ sgd' = [sgd EXCEPT !.pc = "update"]
    /\ UNCHANGED <<engineVars, script, implVars, libVars, grad, autogradVars>>

\* One turn of `for p in group.params()`: a parameter with a grad is
\* updated (add_with_alpha_), one without is passed over.
SgdUpdate ==
    /\ sgd.pc = "update"
    /\ sgd.k <= Len(sgd.params)
    /\ sgd' = [sgd EXCEPT !.k = @ + 1,
                          !.update_modes = IF sgd.params[sgd.k] THEN @ \cup {grad_mode} ELSE @]
    /\ UNCHANGED <<engineVars, script, implVars, libVars, grad, autogradVars>>

\* `loss` is returned; `_guard` is dropped.
SgdReturns ==
    /\ sgd.pc = "update"
    /\ sgd.k > Len(sgd.params)
    /\ grad_mode' = DropGuard(sgd.guards).mode
    /\ sgd' = [sgd EXCEPT !.pc = "returned", !.guards = DropGuard(sgd.guards).guards]
    /\ UNCHANGED <<engineVars, script, implVars, libVars, grad, tensors, built, held, last_call, acc_returned>>

\* Before it calls step the caller may switch the grad mode.
SgdCallerSetsMode(enabled) ==
    /\ sgd.pc = "idle"
    /\ SetGradMode(enabled)

SgdInit ==
    /\ EngineIdle
    /\ grad_mode = TRUE
    /\ tensors = <<>>
    /\ built = <<>>
    /\ held = {}
    /\ last_call = NoCall
    /\ acc_returned = <<>>
    /\ script = NoScript
    /\ grad = NoGrad
    /\ sgd = NoStep
    /\ ImplIdle
    /\ LibIdle

SgdNext ==
    \/ \E closure \in Closures : \E params \in SeqsUpTo(BOOLEAN, MaxParams) :
          SgdStep(closure, params)
    \/ SgdClosureStarts
    \/ \E enabled \in BOOLEAN : SgdClosureSetsMode(enabled)
    \/ SgdClosureReturns
    \/ SgdClosurePanics
    \/ SgdNoClosure
    \/ SgdUpdate
    \/ SgdReturns
    \/ \E enabled \in BOOLEAN : SgdCallerSetsMode(enabled)

SgdSpec == SgdInit /\ [][SgdNext]_vars

(***************************************************************************)
(* TensorImpl (src/src/tensor/tensor_impl.rs) and resize                   *)
(* (src/src/aten/native/resize.rs).  A TensorImpl is a record of its       *)
(* sizes, strides, storage_offset, the cached numel and flags, and the     *)
(* itemsize of its data_type; the TensorImpls in impls are views of the    *)
(* one Storage in storage, whose data_ptr counts its allocations.          *)
(***************************************************************************)

\* The itemsize of the data types considered.
ItemSizes == {1, 4}

\* A byte of a buffer that was allocated and not written since: reading it
\* yields any value.
Uninit == "uninit"

\* The values written to a byte.
ByteValues == {"0x00", "0xff"}

\* allocator().allocate(size_bytes): size_bytes bytes, none of them written.
Allocate(size_bytes) == [k \in 1..size_bytes |-> Uninit]

\* StorageImpl: nbytes() and resizable() read the fields that set_nbytes and
\* the constructor wrote; data_ptr names the allocation that set_data_ptr
\* installed, allocations being numbered as they are made and 0 being the
\* empty DataPtr; data holds the bytes of that allocation.
StorageImplNew(nbytes, resizable) ==
    [nbytes |-> nbytes, resizable |-> resizable, data_ptr |-> 1, allocs |-> 1,
     data |-> Allocate(nbytes)]

\* SmallVec::resize(n, 0): truncated, or extended with zeros.
Resized(vec, n) == [d \in 1..n |-> IF d <= Len(vec) THEN vec[d] ELSE 0]

\* iter().product()
RECURSIVE Product(_)
Product(vec) == IF vec = <<>> THEN 1 ELSE Head(vec) * Product(Tail(vec))

\* TensorImpl::compute_numel
ComputeNumel(impl) == Product(impl.sizes)

\* TensorImpl::refresh_numel
RefreshNumel(impl) == [impl EXCEPT !.numel = ComputeNumel(impl)]

\* The loop of compute_contiguous from dimension d down, z being the stride
\* a contiguous layout has there.
RECURSIVE ContiguousBelow(_, _, _)
ContiguousBelow(impl, d, z) ==
    IF d < 1 THEN TRUE
    ELSE IF impl.sizes[d] # 1
         THEN IF impl.strides[d] = z
              THEN ContiguousBelow(impl, d - 1, z * impl.sizes[d])
              ELSE FALSE
         ELSE ContiguousBelow(impl, d - 1, z)

\* A compute_contiguous that is not true by convention for an empty tensor.
ComputeContiguousOfLayout(impl) == ContiguousBelow(impl, Len(impl.sizes), 1)

\* TensorImpl::compute_contiguous
ComputeContiguous(impl) ==
    IF impl.numel = 0 THEN TRUE ELSE ContiguousBelow(impl, Len(impl.sizes), 1)

\* TensorImpl::refresh_contiguous
RefreshContiguous(impl) ==
    [impl EXCEPT !.is_contiguous = ComputeContiguous(impl),
                 !.is_non_overlapping_and_dense = ComputeContiguous(impl)]

\* TensorImpl::new
TensorImplNew(itemsize) ==
    [sizes |-> <<0>>, strides |-> <<1>>, storage_offset |-> 0, numel |-> 0,
     is_contiguous |-> TRUE, is_non_overlapping_and_dense |-> FALSE,
     itemsize |-> itemsize]

\* TensorImpl::set_storage_offset
SetStorageOffset(impl, storage_offset) ==
    [impl EXCEPT !.storage_offset = storage_offset]

\* set_sizes_and_strides indexes new_stride at every dimension of new_size.
StrideIndexInBounds(new_size, new_stride) == Len(new_stride) >= Len(new_size)

\* TensorImpl::set_sizes_and_strides, and what it leaves behind when the
\* index into new_stride panics: the sizes stored, the strides resized.
SetSizesAndStrides(impl, new_size, new_stride) ==
    IF StrideIndexInBounds(new_size, new_stride)
    THEN RefreshContiguous(RefreshNumel(
             [impl EXCEPT !.sizes = new_size,
                          !.strides = [d \in 1..Len(new_size) |-> new_stride[d]]]))
    ELSE [impl EXCEPT !.sizes = new_size,
                      !.strides = Resized(impl.strides, Len(new_size))]

\* The strides that the Contiguous arm of empty_tensor_restride writes for
\* the dimensions from d down, a strict product of the sizes.
RECURSIVE RestrideDense(_, _, _)
RestrideDense(sizes, strides, d) ==
    IF d < 1 THEN strides
    ELSE RestrideDense(sizes,
                       [strides EXCEPT ![d] = strides[d + 1] * sizes[d + 1]],
                       d - 1)

\* The loop of the Contiguous arm of empty_tensor_restride from dimension
\* i down: strides[i] = strides[d + 1] * max(sizes[d + 1], 1).
RECURSIVE Restride(_, _, _)
Restride(sizes, strides, d) ==
    IF d < 1 THEN strides
    ELSE Restride(sizes,
                  [strides EXCEPT ![d] = strides[d + 1] *
                       (IF sizes[d + 1] > 1 THEN sizes[d + 1] ELSE 1)],
                  d - 1)

MemoryFormats == {"Contiguous", "Preserve", "ChannelsLast", "ChannelsLast3d"}

\* TensorImpl::empty_tensor_restride
EmptyTensorRestride(impl, memory_format) ==
    LET dim_ == Len(impl.sizes)
        resized == Resized(impl.strides, dim_)
        strides == IF memory_format = "Contiguous" /\ dim_ > 0
                   THEN Restride(impl.sizes, [resized EXCEPT ![dim_] = 1], dim_ - 1)
                   ELSE IF memory_format = "Contiguous" THEN resized
                   ELSE impl.strides
    IN RefreshContiguous([impl EXCEPT !.strides = strides])

\* set_sizes_contiguous without its refresh_numel.
SetSizesContiguousStaleNumel(impl, new_size) ==
    EmptyTensorRestride([impl EXCEPT !.sizes = new_size], "Contiguous")

\* TensorImpl::set_sizes_contiguous
SetSizesContiguous(impl, new_size) ==
    EmptyTensorRestride(RefreshNumel([impl EXCEPT !.sizes = new_size]), "Contiguous")

\* TensorImpl::copy_tensor_metadata onto dest_impl
CopyTensorMetadata(src_impl, dest_impl) ==
    [dest_impl EXCEPT !.sizes = src_impl.sizes,
                      !.strides = src_impl.strides,
                      !.storage_offset = src_impl.storage_offset,
                      !.itemsize = src_impl.itemsize,
                      !.is_contiguous = src_impl.is_contiguous,
                      !.is_non_overlapping_and_dense = src_impl.is_non_overlapping_and_dense]

\* TensorImpl::shallow_copy_and_detach
ShallowCopyAndDetach(impl) ==
    RefreshContiguous(RefreshNumel(CopyTensorMetadata(impl, TensorImplNew(impl.itemsize))))

\* may_be_resize_storage_cpu: the bytes the view needs.
NewSizeBytes(impl, new_size) == (new_size + impl.storage_offset) * impl.itemsize

\* A may_be_resize_storage_cpu that never calls resize_bytes.
NeverGrows(impl, new_size, store) == FALSE

\* may_be_resize_storage_cpu: whether it calls resize_bytes.
NeedsResizeBytes(impl, new_size, store) ==
    new_size > 0 /\ NewSizeBytes(impl, new_size) > store.nbytes

\* A resize_bytes that panics on no storage.
ResizeBytesNeverPanics(store) == FALSE

\* resize_bytes panics on a storage that is not resizable.
ResizeBytesPanics(store) == ~store.resizable

\* A resize_bytes that copies nothing into the new allocation.
ResizeBytesNoCopy(store, size_bytes) ==
    [store EXCEPT !.nbytes = size_bytes,
                  !.data_ptr = IF size_bytes # 0 THEN store.allocs + 1 ELSE 0,
                  !.allocs = IF size_bytes # 0 THEN store.allocs + 1 ELSE store.allocs,
                  !.data = Allocate(size_bytes)]

\* resize_bytes on a resizable storage: a new allocation of size_bytes, or
\* the empty DataPtr for no bytes, into which the first min(old capacity,
\* size_bytes) bytes of a non-empty old allocation are copied.
ResizeBytes(store, size_bytes) ==
    LET copy_capacity == IF size_bytes < store.nbytes THEN size_bytes ELSE store.nbytes
    IN [store EXCEPT !.nbytes = size_bytes,
                     !.data_ptr = IF size_bytes # 0 THEN store.allocs + 1 ELSE 0,
                     !.allocs = IF size_bytes # 0 THEN store.allocs + 1 ELSE store.allocs,
                     !.data = [k \in 1..size_bytes |->
                                  IF store.data_ptr # 0 /\ k <= copy_capacity
                                  THEN store.data[k] ELSE Uninit]]

\* The sizes of a dimension that the code tells apart: an empty dimension,
\* a dimension of one element, which compute_contiguous skips, and a larger
\* one.
DimSizes == {0, 1, 2}

\* The size vectors of at most MaxDim dimensions.
Sizes == SeqsUpTo(DimSizes, MaxDim)

\* The strides handed to set_sizes_and_strides with new_size: any strides
\* for at most two dimensions; beyond that the contiguous, the transposed,
\* the expanded and the unit layouts; and, for a non-scalar, the empty
\* slice.
StrideChoices(new_size) ==
    LET dim_ == Len(new_size)
        unit == [d \in 1..dim_ |-> 1]
        contiguous == Restride(new_size, unit, dim_ - 1)
    IN (IF dim_ <= 2
        THEN [1..dim_ -> 0..MaxStride]
        ELSE {contiguous, unit, [d \in 1..dim_ |-> 0],
              [d \in 1..dim_ |-> contiguous[dim_ + 1 - d]]})
       \cup (IF dim_ > 0 THEN {<<>>} ELSE {})

\* No operation on a TensorImpl has panicked.
ImplRunning == impl_last.status = "returned"

ImplDone(op, v, status) == [op |-> op, v |-> v, status |-> status]

\* impls[v] = TensorImpl::new(storage, data_type, device): view v is bound to
\* a new TensorImpl of the storage.
CallNew(v, itemsize) ==
    /\ ImplRunning
    /\ impls' = [impls EXCEPT ![v] = TensorImplNew(itemsize)]
    /\ impl_last' = ImplDone("new", v, "returned")
    /\ UNCHANGED <<engineVars, autogradVars, script, grad, sgd, libVars, storage>>

CallSetSizesAndStrides(v, new_size, new_stride) ==
    /\ ImplRunning
    /\ impls' = [impls EXCEPT ![v] = SetSizesAndStrides(impls[v], new_size, new_stride)]
    /\ impl_last' = ImplDone("set_sizes_and_strides", v,
                             IF StrideIndexInBounds(new_size, new_stride)
                             THEN "returned" ELSE "panicked")
    /\ UNCHANGED <<engineVars, autogradVars, script, grad, sgd, libVars, storage>>

CallSetSizesContiguous(v, new_size) ==
    /\ ImplRunning
    /\ impls' = [impls EXCEPT ![v] = SetSizesContiguous(impls[v], new_size)]
    /\ impl_last' = ImplDone("set_sizes_contiguous", v, "returned")
    /\ UNCHANGED <<engineVars, autogradVars, script, grad, sgd, libVars, storage>>

CallEmptyTensorRestride(v, memory_format) ==
    /\ ImplRunning
    /\ impls' = [impls EXCEPT ![v] = EmptyTensorRestride(impls[v], memory_format)]
    /\ impl_last' = ImplDone("empty_tensor_restride", v, "returned")
    /\ UNCHANGED <<engineVars, autogradVars, script, grad, sgd, libVars, storage>>

CallSetStorageOffset(v, storage_offset) ==
    /\ ImplRunning
    /\ impls' = [impls EXCEPT ![v] = SetStorageOffset(impls[v], storage_offset)]
    /\ impl_last' = ImplDone("set_storage_offset", v, "returned")
    /\ UNCHANGED <<engineVars, autogradVars, script, grad, sgd, libVars, storage>>

\* impls[dest] = impls[src].shallow_copy_and_detach(..): view dest is bound
\* to the copy.
CallShallowCopyAndDetach(src, dest) ==
    /\ ImplRunning
    /\ impls' = [impls EXCEPT ![dest] = ShallowCopyAndDetach(impls[src])]
    /\ impl_last' = [op |-> "shallow_copy_and_detach", v |-> dest,
                     status |-> "returned", src |-> src]
    /\ UNCHANGED <<engineVars, autogradVars, script, grad, sgd, libVars, storage>>

\* resize(self_, size, _): resize_impl_cpu with no stride, that is
\* set_sizes_contiguous and then may_be_resize_storage_cpu, whose
\* resize_bytes panics on a storage that is not resizable.
CallResize(v, size) ==
    \E impl \in {SetSizesContiguous(impls[v], size)} :
        /\ ImplRunning
        /\ impls' = [impls EXCEPT ![v] = impl]
        /\ storage' = IF NeedsResizeBytes(impl, impl.numel, storage)
                         /\ ~ResizeBytesPanics(storage)
                      THEN ResizeBytes(storage, NewSizeBytes(impl, impl.numel))
                      ELSE storage
        /\ impl_last' = ImplDone("resize", v,
                                 IF NeedsResizeBytes(impl, impl.numel, storage)
                                    /\ ResizeBytesPanics(storage)
                                 THEN "panicked" ELSE "returned")
        /\ UNCHANGED <<engineVars, autogradVars, script, grad, sgd, libVars>>

\* The other variables while TensorImpls are looked at alone.
ImplAlone ==
    /\ EngineIdle
    /\ grad_mode = TRUE
    /\ tensors = <<>>
    /\ built = <<>>
    /\ held = {}
    /\ last_call = NoCall
    /\ acc_returned = <<>>
    /\ script = NoScript
    /\ grad = NoGrad
    /\ sgd = NoStep
    /\ LibIdle

\* The bytes that hold the largest view.
RECURSIVE Power(_, _)
Power(base, exponent) == IF exponent = 0 THEN 1 ELSE base * Power(base, exponent - 1)

Capacity == (Power(2, MaxDim) + MaxOffset) * 4

\* One TensorImpl of a four-byte data type, just constructed over a storage
\* that holds every view of the sizes above.
TensorImplInit ==
    /\ ImplAlone
    /\ impls = <<TensorImplNew(4)>>
    /\ storage = StorageImplNew(Capacity, FALSE)
    /\ impl_last = ImplDone("new", 1, "returned")

TensorImplNext ==
    \/ CallNew(1, 4)
    \/ \E new_size \in Sizes : \E new_stride \in StrideChoices(new_size) :
          CallSetSizesAndStrides(1, new_size, new_stride)
    \/ \E new_size \in Sizes : CallSetSizesContiguous(1, new_size)
    \/ \E memory_format \in MemoryFormats : CallEmptyTensorRestride(1, memory_format)
    \/ \E storage_offset \in 0..MaxOffset : CallSetStorageOffset(1, storage_offset)
    \/ CallShallowCopyAndDetach(1, 1)
    \/ \E size \in Sizes : CallResize(1, size)

TensorImplSpec == TensorImplInit /\ [][TensorImplNext]_vars

\* The one-dimensional sizes that the views of a shared storage are resized
\* to, and the scalar.
Lengths == {<<>>} \cup {<<n>> : n \in 0..MaxLength}

\* Two views of one storage, just constructed.
ResizeInit ==
    /\ ImplAlone
    /\ \E itemsize \in ItemSizes :
          impls = <<TensorImplNew(itemsize), TensorImplNew(itemsize)>>
    /\ \E resizable \in BOOLEAN : \E nbytes \in {0, 4} :
          storage = StorageImplNew(nbytes, resizable)
    /\ impl_last = ImplDone("new", 2, "returned")

ResizeNext ==
    \/ \E v \in DOMAIN impls : \E size \in Lengths : CallResize(v, size)
    \/ \E v \in DOMAIN impls : \E storage_offset \in 0..MaxOffset :
          CallSetStorageOffset(v, storage_offset)
    \/ \E src \in DOMAIN impls : \E dest \in DOMAIN impls :
          CallShallowCopyAndDetach(src, dest)

ResizeSpec == ResizeInit /\ [][ResizeNext]_vars

(***************************************************************************)
(* A Storage under resize_bytes, the writes of its owner and the resizes   *)
(* of one view of single bytes.                                            *)
(***************************************************************************)

StorageDone(op, size_bytes, status) ==
    [op |-> op, v |-> 0, status |-> status, size_bytes |-> size_bytes]

\* resize_bytes(storage, size_bytes), called on the StorageImpl itself.
CallResizeBytes(size_bytes) ==
    /\ ImplRunning
    /\ storage.allocs < MaxAllocs
    /\ storage' = IF ResizeBytesPanics(storage) THEN storage
                  ELSE ResizeBytes(storage, size_bytes)
    /\ impl_last' = StorageDone("resize_bytes", size_bytes,
                                IF ResizeBytesPanics(storage)
                                THEN "panicked" ELSE "returned")
    /\ UNCHANGED <<engineVars, autogradVars, script, grad, sgd, libVars, impls>>

\* A write of byte k through the data pointer of the storage.
CallWrite(k, byte) ==
    /\ ImplRunning
    /\ k \in 1..storage.nbytes
    /\ storage' = [storage EXCEPT !.data[k] = byte]
    /\ impl_last' = StorageDone("write", storage.nbytes, "returned")
    /\ UNCHANGED <<engineVars, autogradVars, script, grad, sgd, libVars, impls>>

\* A storage of up to MaxLength bytes, just constructed, and one view of it.
StorageInit ==
    /\ ImplAlone
    /\ impls = <<TensorImplNew(1)>>
    /\ \E resizable \in BOOLEAN : \E nbytes \in 0..MaxLength :
          storage = StorageImplNew(nbytes, resizable)
    /\ impl_last = ImplDone("new", 1, "returned")

StorageNext ==
    \/ \E size_bytes \in 0..MaxLength : CallResizeBytes(size_bytes)
    \/ \E k \in 1..MaxLength : \E byte \in ByteValues : CallWrite(k, byte)
    \/ \E size \in Lengths : storage.allocs < MaxAllocs /\ CallResize(1, size)

StorageSpec == StorageInit /\ [][StorageNext]_vars

(***************************************************************************)
(* Variable, Add and AddBackWard (src/src/ops.rs).  A Variable is a record *)
(* of its data and its grad, an Option; the leaves a and b are behind      *)
(* Rc<RefCell<..>>, and same tells whether the caller handed the same Rc   *)
(* twice.  The data are integers.                                          *)
(***************************************************************************)

Values == 0..MaxValue

Variable(data) == [data |-> data, grad |-> None]

\* Add::apply: the data of the Variable it returns.
AddApply(a, b) == a.data + b.data

\* An AddBackWard::apply that hands the incoming gradient on as it is.
AddBackWardPassesGrad(x, y, grad_data) == [x |-> grad_data, y |-> grad_data]

\* AddBackWard::apply: the data of the gradients it hands to x.backward and
\* to y.backward.
AddBackWardApply(x, y, grad_data) ==
    [x |-> grad_data * y.data, y |-> grad_data * x.data]

\* Variable::backward(grad) stores the gradient it is given, 1.0 for None,
\* in self.grad before it calls the grad_fn.
SeedOf(seed) == IF seed = None THEN 1 ELSE Unwrap(seed)

\* The caller builds the leaves a and b, or one leaf that it uses twice.
OpsLeaves(a_data, b_data, same) ==
    /\ ops.pc = "idle"
    /\ same => a_data = b_data
    /\ ops' = [pc |-> "leaves", a |-> Variable(a_data), b |-> Variable(b_data),
               same |-> same]
    /\ UNCHANGED <<engineVars, autogradVars, script, grad, sgd, implVars, versions, options>>

\* let out = Add.apply(&a, &b)
OpsAdd ==
    /\ ops.pc = "leaves"
    /\ ops' = [pc |-> "applied", a |-> ops.a, b |-> ops.b, same |-> ops.same,
               out |-> Variable(AddApply(ops.a, ops.b))]
    /\ UNCHANGED <<engineVars, autogradVars, script, grad, sgd, implVars, versions, options>>

\* out.backward(seed): out.grad is set and AddBackWard::apply runs, which
\* holds x.borrow_mut() while it reads y.borrow() and so panics when x and y
\* are one RefCell.
OpsBackward(seed) ==
    /\ ops.pc = "applied"
    /\ \E g \in {AddBackWardApply(ops.a, ops.b, SeedOf(seed))} :
          ops' = [pc |-> IF ops.same THEN "panicked" ELSE "done",
                  a |-> IF ops.same THEN ops.a ELSE [ops.a EXCEPT !.grad = Some(g.x)],
                  b |-> IF ops.same THEN ops.b ELSE [ops.b EXCEPT !.grad = Some(g.y)],
                  same |-> ops.same,
                  out |-> [ops.out EXCEPT !.grad = Some(SeedOf(seed))],
                  seed |-> seed]
    /\ UNCHANGED <<engineVars, autogradVars, script, grad, sgd, implVars, versions, options>>

\* The caller drops a, b and out.
OpsDrop ==
    /\ ops.pc \in {"done", "panicked"}
    /\ ops' = [pc |-> "idle"]
    /\ UNCHANGED <<engineVars, autogradVars, script, grad, sgd, implVars, versions, options>>

\* The other variables while Variables or TensorVersions are looked at alone.
LibAlone ==
    /\ ImplIdle
    /\ EngineIdle
    /\ grad_mode = TRUE
    /\ tensors = <<>>
    /\ built = <<>>
    /\ held = {}
    /\ last_call = NoCall
    /\ acc_returned = <<>>
    /\ script = NoScript
    /\ grad = NoGrad
    /\ sgd = NoStep

OpsInit ==
    /\ LibAlone
    /\ ops = [pc |-> "idle"]
    /\ versions = [counters |-> <<>>]
    /\ options = [pc |-> "idle"]

OpsNext ==
    \/ \E a_data \in Values : \E b_data \in Values : \E same \in BOOLEAN :
          OpsLeaves(a_data, b_data, same)
    \/ OpsAdd
    \/ \E seed \in {None} \cup {Some(g) : g \in Values} : OpsBackward(seed)
    \/ OpsDrop

OpsSpec == OpsInit /\ [][OpsNext]_vars

(***************************************************************************)
(* TensorVersion (src/src/tensor/tensor_impl.rs) and tensor_data           *)
(* (src/src/util_autograd.rs).  versions.counters are the                  *)
(* Rc<RefCell<VersionCounter>> made so far, each with its version and its  *)
(* strong count; versions.holds gives, for every TensorImpl, the counter   *)
(* its version_counter field points to, 0 once the TensorImpl is dropped.  *)
(* As history, group tells which logical tensor value a TensorImpl stands  *)
(* for, bumps counts the bump_version calls made on each value, and last   *)
(* is the last call, with the TensorImpl it was made on where a property   *)
(* asks for it; the TensorImpl that new or tensor_data returned is the one *)
(* made last.                                                              *)
(***************************************************************************)

NoVersions ==
    [counters |-> <<>>, holds |-> <<>>, group |-> <<>>, bumps |-> <<>>,
     last |-> [op |-> "none", t |-> 0]]

\* TensorVersion::new(): a new Rc, which its maker holds.
TensorVersionNew(vs) ==
    [vs EXCEPT !.counters = Append(vs.counters, [version |-> 0, strong |-> 1])]

\* TensorVersion::clone(): one more strong reference to counter c.
TensorVersionClone(vs, c) ==
    [vs EXCEPT !.counters[c].strong = vs.counters[c].strong + 1]

\* A TensorVersion that is forgotten, not dropped.
ForgetTensorVersion(vs, c) == vs

\* Drop of a TensorVersion: one strong reference to counter c fewer.
DropTensorVersion(vs, c) ==
    [vs EXCEPT !.counters[c].strong = vs.counters[c].strong - 1]

\* TensorVersion::bump
Bump(vs, c) == [vs EXCEPT !.counters[c].version = vs.counters[c].version + 1]

\* TensorImpl::version_counter().current_version()
CurrentVersion(vs, t) == vs.counters[vs.holds[t]].version

\* TensorImpl::unique_version, that is TensorVersion::unique
UniqueVersion(vs, t) == 1 = vs.counters[vs.holds[t]].strong

\* The TensorImpls that are alive.
Live(vs) == {t \in DOMAIN vs.holds : vs.holds[t] # 0}

\* A copy that is given a counter of its own, started at the version of t.
OwnVersionCounter(vs, t) ==
    [vs EXCEPT !.counters = Append(vs.counters,
                                   [version |-> CurrentVersion(vs, t), strong |-> 1]),
               !.holds = Append(vs.holds, Len(vs.counters) + 1)]

\* shallow_copy_and_detach(t.version_counter()) as far as the counters go:
\* the copy is built with a TensorVersion of its own, which
\* copy_tensor_metadata replaces, and so drops, by a clone of the counter
\* handed in.
SharedVersionCounter(vs, t) ==
    [TensorVersionClone(vs, vs.holds[t]) EXCEPT !.holds = Append(vs.holds, vs.holds[t])]

\* let t = TensorImpl::new(..)
VcNew ==
    /\ Len(versions.holds) < MaxHolders
    /\ Len(versions.counters) < MaxCounters
    /\ versions' = [TensorVersionNew(versions) EXCEPT
                       !.holds = Append(versions.holds, Len(versions.counters) + 1),
                       !.group = Append(versions.group, Len(versions.bumps) + 1),
                       !.bumps = Append(versions.bumps, 0),
                       !.last = [op |-> "new", t |-> 0]]
    /\ UNCHANGED <<engineVars, autogradVars, script, grad, sgd, implVars, ops, options>>

\* let v = TensorHook::tensor_data(t)
VcTensorData(t) ==
    /\ t \in Live(versions)
    /\ Len(versions.holds) < MaxHolders
    /\ versions' = [SharedVersionCounter(versions, t) EXCEPT
                       !.group = Append(versions.group, versions.group[t]),
                       !.last = [op |-> "tensor_data", t |-> t]]
    /\ UNCHANGED <<engineVars, autogradVars, script, grad, sgd, implVars, ops, options>>

\* t.bump_version()
VcBumpVersion(t) ==
    /\ t \in Live(versions)
    /\ CurrentVersion(versions, t) < MaxVersion
    /\ versions' = [Bump(versions, versions.holds[t]) EXCEPT
                       !.bumps[versions.group[t]] = versions.bumps[versions.group[t]] + 1,
                       !.last = [op |-> "bump_version", t |-> t]]
    /\ UNCHANGED <<engineVars, autogradVars, script, grad, sgd, implVars, ops, options>>

\* t.set_version_counter(u.version_counter().clone()): the clone is made,
\* then the assignment drops the TensorVersion that t held.
VcSetVersionCounter(t, u) ==
    /\ t \in Live(versions) /\ u \in Live(versions)
    /\ versions' = [DropTensorVersion(TensorVersionClone(versions, versions.holds[u]),
                                      versions.holds[t])
                    EXCEPT !.holds[t] = versions.holds[u],
                           !.group[t] = versions.group[u],
                           !.last = [op |-> "set_version_counter", t |-> 0]]
    /\ UNCHANGED <<engineVars, autogradVars, script, grad, sgd, implVars, ops, options>>

\* t.set_version_counter(TensorVersion::new())
VcSetNewVersionCounter(t) ==
    /\ t \in Live(versions)
    /\ Len(versions.counters) < MaxCounters
    /\ versions' = [DropTensorVersion(TensorVersionNew(versions), versions.holds[t])
                    EXCEPT !.holds[t] = Len(versions.counters) + 1,
                           !.group[t] = Len(versions.bumps) + 1,
                           !.bumps = Append(versions.bumps, 0),
                           !.last = [op |-> "set_version_counter", t |-> 0]]
    /\ UNCHANGED <<engineVars, autogradVars, script, grad, sgd, implVars, ops, options>>

\* drop(t): the TensorImpl goes, and with it its TensorVersion.
VcDrop(t) ==
    /\ t \in Live(versions)
    /\ versions' = [DropTensorVersion(versions, versions.holds[t])
                    EXCEPT !.holds[t] = 0,
                           !.last = [op |-> "drop", t |-> t]]
    /\ UNCHANGED <<engineVars, autogradVars, script, grad, sgd, implVars, ops, options>>

VersionInit ==
    /\ LibAlone
    /\ ops = [pc |-> "idle"]
    /\ versions = NoVersions
    /\ options = [pc |-> "idle"]

VersionNext ==
    \/ VcNew
    \/ \E t \in DOMAIN versions.holds : VcTensorData(t)
    \/ \E t \in DOMAIN versions.holds : VcBumpVersion(t)
    \/ \E t \in DOMAIN versions.holds : \E u \in DOMAIN versions.holds :
          VcSetVersionCounter(t, u)
    \/ \E t \in DOMAIN versions.holds : VcSetNewVersionCounter(t)
    \/ \E t \in DOMAIN versions.holds : VcDrop(t)

VersionSpec == VersionInit /\ [][VersionNext]_vars

(***************************************************************************)
(* TensorOptions (src/src/c10/core_/tensor_options.rs).  The caller holds  *)
(* two TensorOptions a and b, built by the constructors and changed by the *)
(* set_*_mut functions, and merges them with a.merge_in(b).                *)
(***************************************************************************)
Devices == {"Cpu", "Cuda"}
TypeMetas == {"f32", "f64"}
Layouts == {"Strided", "Sparse"}
OptionFormats == {"Contiguous", "ChannelsLast"}

\* impl Default for TensorOptions
TensorOptionsDefault ==
    [requires_grad |-> FALSE, pinned_memory |-> FALSE, has_device |-> FALSE,
     has_dtype |-> FALSE, has_layout |-> FALSE, has_requires_grad |-> FALSE,
     has_pinned_memory |-> FALSE, has_memory_format |-> FALSE, dtype |-> "f32",
     device |-> "Cpu", layout |-> "Strided", memory_format |-> "Contiguous"]

\* TensorOptions::set_dtype_mut
SetDtypeMut(o, dtype) ==
    IF dtype # None THEN [o EXCEPT !.dtype = Unwrap(dtype), !.has_dtype = TRUE]
    ELSE [o EXCEPT !.has_dtype = FALSE]

\* TensorOptions::set_device_mut
SetDeviceMut(o, device) ==
    IF device # None THEN [o EXCEPT !.device = Unwrap(device), !.has_device = TRUE]
    ELSE [o EXCEPT !.has_device = FALSE]

\* TensorOptions::set_layout_mut
SetLayoutMut(o, layout) ==
    IF layout # None THEN [o EXCEPT !.layout = Unwrap(layout), !.has_layout = TRUE]
    ELSE [o EXCEPT !.has_layout = FALSE]

\* TensorOptions::set_memory_format_mut
SetMemoryFormatMut(o, memory_format) ==
    IF memory_format # None
    THEN [o EXCEPT !.has_memory_format = TRUE, !.memory_format = Unwrap(memory_format)]
    ELSE [o EXCEPT !.has_memory_format = FALSE]

\* TensorOptions::set_requires_grad_mut
SetRequiresGradMut(o, requires_grad) ==
    IF requires_grad # None
    THEN [o EXCEPT !.requires_grad = Unwrap(requires_grad), !.has_requires_grad = TRUE]
    ELSE [o EXCEPT !.has_requires_grad = FALSE]

\* TensorOptions::with_layout
WithLayout(layout) == [TensorOptionsDefault EXCEPT !.layout = layout]

\* TensorOptions::with_device
WithDevice(device) == [TensorOptionsDefault EXCEPT !.device = device]

\* TensorOptions::with_device_type(type_, None): Device::new(type_, None) is
\* the device of that type.
WithDeviceType(type_) == WithDevice(type_)

\* TensorOptions::with_dtype
WithDtype(dtype) == [TensorOptionsDefault EXCEPT !.dtype = dtype, !.has_dtype = TRUE]

\* TensorOptions::with_memory_format
WithMemoryFormat(memory_format) ==
    [TensorOptionsDefault EXCEPT !.memory_format = memory_format]

\* TensorOptions::with_requires_grad_
WithRequiresGrad_(requires_grad) ==
    SetRequiresGradMut(TensorOptionsDefault, Some(requires_grad))

\* The getters.
HasDevice(o) == o.has_device
HasDtype(o) == o.has_dtype
HasLayout(o) == o.has_layout
HasRequiresGrad(o) == o.has_requires_grad
HasMemoryFormat(o) == o.has_memory_format
DeviceOpt(o) == IF o.has_device THEN Some(o.device) ELSE None
DtypeOpt(o) == IF o.has_dtype THEN Some(o.dtype) ELSE None
LayoutOpt(o) == IF o.has_layout THEN Some(o.layout) ELSE None
RequiresGradOpt(o) == IF o.has_requires_grad THEN Some(o.requires_grad) ELSE None
MemoryFormatOpt(o) == IF o.has_memory_format THEN Some(o.memory_format) ELSE None
DeviceOf(o) == IF o.has_device THEN o.device ELSE "Cpu"
DtypeOf(o) == IF o.has_dtype THEN o.dtype ELSE "f32"
LayoutOf(o) == IF o.has_layout THEN o.layout ELSE "Strided"
RequiresGradOf(o) == IF o.has_requires_grad THEN o.requires_grad ELSE FALSE

\* A merge_in that is the clone of its argument.
MergeInClone(self, other) == other

\* self.merge_in(options)
MergeIn(self, other) ==
    LET r1 == IF ~HasDevice(other) THEN SetDeviceMut(other, DeviceOpt(self)) ELSE other
        r2 == IF ~HasDtype(r1) THEN SetDtypeMut(r1, DtypeOpt(self)) ELSE r1
        r3 == IF ~HasLayout(r2) THEN SetLayoutMut(r2, LayoutOpt(self)) ELSE r2
    IN IF ~HasRequiresGrad(r3) THEN SetRequiresGradMut(r3, RequiresGradOpt(self)) ELSE r3

\* What the with_X constructors yield, by constructor and argument.
Constructors ==
    {<<"with_layout", x, WithLayout(x)>> : x \in Layouts}
    \cup {<<"with_device", x, WithDevice(x)>> : x \in Devices}
    \cup {<<"with_device_type", x, WithDeviceType(x)>> : x \in Devices}
    \cup {<<"with_dtype", x, WithDtype(x)>> : x \in TypeMetas}
    \cup {<<"with_memory_format", x, WithMemoryFormat(x)>> : x \in OptionFormats}
    \cup {<<"with_requires_grad_", x, WithRequiresGrad_(x)>> : x \in BOOLEAN}

\* What the set_*_mut functions make of o, by function and argument.
Setters(o) ==
    {<<"set_layout_mut", x, SetLayoutMut(o, x)>> : x \in {None} \cup {Some(v) : v \in Layouts}}
    \cup {<<"set_device_mut", x, SetDeviceMut(o, x)>> : x \in {None} \cup {Some(v) : v \in Devices}}
    \cup {<<"set_dtype_mut", x, SetDtypeMut(o, x)>> : x \in {None} \cup {Some(v) : v \in TypeMetas}}
    \cup {<<"set_memory_format_mut", x, SetMemoryFormatMut(o, x)>> : x \in {None} \cup {Some(v) : v \in OptionFormats}}
    \cup {<<"set_requires_grad_mut", x, SetRequiresGradMut(o, x)>> : x \in {None} \cup {Some(v) : v \in BOOLEAN}}

OptionsDone(op, target, x) == [op |-> op, target |-> target, x |-> x]

\* let a = TensorOptions::with_X(x), or the same for b
OptionsWith(target, c) ==
    /\ options.r = None
    /\ options' = [options EXCEPT ![target] = c[3],
                                  !.last = OptionsDone(c[1], target, c[2])]
    /\ UNCHANGED <<engineVars, autogradVars, script, grad, sgd, implVars, ops, versions>>

\* a.set_X_mut(x), or the same for b
OptionsSet(target, c) ==
    /\ options.r = None
    /\ options.sets < MaxSets
    /\ options' = [options EXCEPT ![target] = c[3],
                                  !.sets = @ + 1,
                                  !.last = OptionsDone(c[1], target, c[2])]
    /\ UNCHANGED <<engineVars, autogradVars, script, grad, sgd, implVars, ops, versions>>

\* let r = a.merge_in(b)
OptionsMergeIn ==
    /\ options.r = None
    /\ options' = [options EXCEPT !.r = Some(MergeIn(options.a, options.b)),
                                  !.last = OptionsDone("merge_in", "r", None)]
    /\ UNCHANGED <<engineVars, autogradVars, script, grad, sgd, implVars, ops, versions>>

\* The options the caller starts with: a and b are TensorOptions::default().
NewOptions ==
    [pc |-> "built", a |-> TensorOptionsDefault, b |-> TensorOptionsDefault,
     r |-> None, sets |-> 0, last |-> OptionsDone("default", "a", None)]

\* The caller drops a, b and r and starts again.
OptionsDrop ==
    /\ options.r # None
    /\ options' = NewOptions
    /\ UNCHANGED <<engineVars, autogradVars, script, grad, sgd, implVars, ops, versions>>

OptionsInit ==
    /\ LibAlone
    /\ ops = [pc |-> "idle"]
    /\ versions = [counters |-> <<>>]
    /\ options = NewOptions

OptionsNext ==
    \/ \E target \in {"a", "b"} : \E c \in Constructors : OptionsWith(target, c)
    \/ \E target \in {"a", "b"} : \E c \in Setters(options[target]) : OptionsSet(target, c)
    \/ OptionsMergeIn
    \/ OptionsDrop

OptionsSpec == OptionsInit /\ [][OptionsNext]_vars

(***************************************************************************)
(* Properties of the forward pass (continued)                              *)
(***************************************************************************)

\* The last call was a forward operation that called collect_next_edges.
EdgesCollected == ForwardReturned /\ last_call.collected.called

\* The Edge that input k of the last collect_next_edges call is due, given
\* the input's metadata before the call.
EdgeIsDue(k) ==
    LET t == last_call.collected.inputs[k].tensor
        before == last_call.collected.inputs[k].before
        e == last_call.collected.edges[k]
    IN IF before.autograd_meta /\ before.grad_fn # None
       THEN e = Edge(before.grad_fn, before.output_nr)
       ELSE IF before.autograd_meta /\ before.requires_grad
       THEN /\ e.function # None
            /\ e.input_nr = 0
            /\ built[Unwrap(e.function)].kind = "AccumulateGrad"
            /\ built[Unwrap(e.function)].variable = Some(t)
            /\ tensors[t].grad_accumulator = e.function
       ELSE e = Edge(None, 0)

EdgeTargets(n) ==
    UNION {built[n].next_edges[k].function : k \in 1..Len(built[n].next_edges)}

C15_LossRejectsTargetAndWeight ==
    (ForwardCalled /\ last_call.barred) =>
        /\ last_call.status = "panicked"
        /\ last_call.new_nodes = 0
        /\ last_call.grad_fn = None
        /\ last_call.history = <<>>

(***************************************************************************)
(* Properties of Sgd::step                                                 *)
(***************************************************************************)
\* C16: Sgd::step runs the closure with grad mode enabled, updates the
\* parameters with grad mode disabled, and on every exit path (return, no
\* closure given, panic in the closure) leaves the grad mode as it was
\* before the call, whatever that was.
C16_StepRestoresGradMode ==
    /\ sgd.pc \in {"closure", "update", "returned", "panicked"} =>
          (sgd.closure # "none" => sgd.closure_mode = Some(TRUE))
    /\ sgd.pc \in {"update", "returned"} => sgd.update_modes \subseteq {FALSE}
    /\ sgd.pc = "update" => grad_mode = FALSE
    /\ sgd.pc \in {"returned", "panicked"} => grad_mode = sgd.before

\* step was called with grad mode disabled and a closure that returned; a
\* parameter with a grad was updated and the call returned.
C16_Witness ==
    /\ sgd.pc = "returned"
    /\ sgd.closure = "returns"
    /\ sgd.before = FALSE
    /\ sgd.update_modes = {FALSE}
    /\ grad_mode = FALSE

(***************************************************************************)
(* Properties of a forward pass followed by backward                       *)
(***************************************************************************)
\* The accumulator Nodes built for leaf t.
AccumulatorsOf(t) ==
    {a \in 1..Len(built) : built[a].kind = "AccumulateGrad" /\ built[a].variable = Some(t)}

\* The program is y = mean(sigmoid(linear(x))) with a leaf x that requires
\* grad and the parameters of the layer, which Linear::reset registers as
\* requiring grad.
LinearScenario ==
    /\ script = MeanSigmoidLinear
    /\ \A t \in 1..3 : tensors[t].autograd_meta /\ tensors[t].requires_grad

\* C13: for y = mean(sigmoid(linear(x))) with a leaf x that requires grad,
\* backward from y executes the accumulator of x, so that x.grad is
\* populated, and ends with outstanding_tasks = 0.
C13_BackwardPopulatesGrad ==
    LinearScenario =>
        <>(/\ pc = "returned"
           /\ outstanding_tasks = 0
           /\ 1 \in DOMAIN grad
           /\ \E a \in AccumulatorsOf(1) : applied[a] = 1)

\* C14: when two edges target the accumulator of a leaf, one backward call
\* delivers both gradients to it and the leaf's grad ends as the sum of the
\* two contributions.
C14_GradIsSumOfContributions ==
    Returned =>
        \A t \in 1..script.leaves : \A a \in AccumulatorsOf(t) :
            Cardinality(EdgesInto(a)) = 2 =>
                /\ EdgesInto(a) \subseteq delivered
                /\ t \in DOMAIN grad
                /\ grad[t] = EdgesInto(a)

(***************************************************************************)
(* Properties of TensorImpl                                                *)
(***************************************************************************)

\* The TensorImpl that the last operation acted on.
LastImpl == impls[impl_last.v]

\* The stride of dimension d is the stride of the next dimension times its
\* size, an empty next dimension counting as one element.
StrideRecurrence(impl, d) ==
    impl.strides[d] = impl.strides[d + 1] *
                      (IF impl.sizes[d + 1] >= 1 THEN impl.sizes[d + 1] ELSE 1)

\* C17: after set_sizes_contiguous(sizes) or resize(sizes) the last stride
\* is 1 and every other stride is the next stride times max(next size, 1);
\* so when every size is at least 1, each stride is the product of the
\* sizes after it and is_contiguous() is true.
C17_ContiguousStrides ==
    impl_last.op \in {"set_sizes_contiguous", "resize"} =>
        LET impl == LastImpl
            dim_ == Len(impl.sizes)
        IN /\ Len(impl.strides) = dim_
           /\ dim_ > 0 => impl.strides[dim_] = 1
           /\ \A d \in 1..(dim_ - 1) : StrideRecurrence(impl, d)
           /\ (\A d \in 1..dim_ : impl.sizes[d] >= 1) =>
                 /\ \A d \in 1..dim_ :
                       impl.strides[d] = Product(SubSeq(impl.sizes, d + 1, dim_))
                 /\ impl.is_contiguous

\* A resize to at least two dimensions, each of more than one element, has
\* returned.
C17_Witness ==
    /\ impl_last.op = "resize"
    /\ impl_last.status = "returned"
    /\ Len(LastImpl.sizes) >= 2
    /\ \A d \in DOMAIN LastImpl.sizes : LastImpl.sizes[d] > 1
    /\ LastImpl.strides[1] > 1

C19_FlagsAreComputeContiguous ==
    impl_last.status = "returned" =>
        \A v \in DOMAIN impls :
            /\ impls[v].is_contiguous = ComputeContiguous(impls[v])
            /\ impls[v].is_non_overlapping_and_dense = ComputeContiguous(impls[v])

\* The bytes that a view takes up from the start of its storage.
ViewBytes(impl) == (impl.numel + impl.storage_offset) * impl.itemsize

\* What a step that is a returned resize of a view does to the storage,
\* given the view after the step and the storage before and after it.
ResizeContract(impl, before, after) ==
    LET grows == impl.numel > 0 /\ ViewBytes(impl) > before.nbytes
    IN /\ (after.data_ptr # before.data_ptr) <=> grows
       /\ grows => after.nbytes = ViewBytes(impl)
       /\ ~grows => after = before
       /\ impl.numel > 0 => ViewBytes(impl) <= after.nbytes

\* C20: resize(tensor, sizes) reallocates the storage exactly when numel > 0
\* and (numel + storage_offset) * itemsize > nbytes, and nbytes is then that
\* value, while otherwise the storage is untouched; over the resize calls
\* on the views of one storage nbytes never decreases, and after a resize
\* the resized view with numel > 0 fits into nbytes.
C20_ResizeGrowsStorage ==
    [][/\ storage'.nbytes >= storage.nbytes
       /\ (impl_last'.op = "resize" /\ impl_last'.status = "returned") =>
              ResizeContract(impls'[impl_last'.v], storage, storage')]_vars

\* The storage was reallocated twice and the last resize grew it for a view
\* that starts behind the other view, which holds elements too.
C20_Witness ==
    /\ impl_last.op = "resize"
    /\ impl_last.status = "returned"
    /\ storage.data_ptr >= 3
    /\ storage.nbytes = ViewBytes(LastImpl)
    /\ \E w \in DOMAIN impls :
          /\ impls[w].numel > 0
          /\ impls[w].storage_offset < LastImpl.storage_offset

(***************************************************************************)
(* Properties of the Storage                                               *)
(***************************************************************************)

\* The step is a call of op on the storage or on a view that ended with
\* status.
StorageStep(op, status) == impl_last'.op = op /\ impl_last'.status = status

Min(a, b) == IF a < b THEN a ELSE b

\* C21: resize_bytes(storage, M) on a resizable storage of N bytes leaves
\* nbytes == M, and the first min(N, M) bytes of the new buffer are the
\* first min(N, M) bytes of the old one.
C21_ResizeBytesKeepsPrefix ==
    [][(StorageStep("resize_bytes", "returned") /\ storage.resizable) =>
           /\ storage'.nbytes = impl_last'.size_bytes
           /\ Len(storage'.data) = storage'.nbytes
           /\ \A k \in 1..Min(storage.nbytes, storage'.nbytes) :
                 storage'.data[k] = storage.data[k]]_vars

\* resize_bytes has just moved a written byte into a new allocation whose
\* last byte was never written.
C21_Witness ==
    /\ impl_last.op = "resize_bytes"
    /\ impl_last.status = "returned"
    /\ storage.allocs >= 2
    /\ storage.nbytes >= 2
    /\ storage.data[1] \in ByteValues
    /\ storage.data[storage.nbytes] = Uninit

\* C22 as stated: on a storage that is not resizable resize_bytes panics
\* for every requested size and leaves nbytes and the data pointer alone,
\* and every resize of a tensor backed by it fails.
C22_EveryResizeFails ==
    [][(~storage.resizable /\ impl_last'.op \in {"resize_bytes", "resize"}) =>
           /\ impl_last'.status = "panicked"
           /\ storage' = storage]_vars

\* C22, amended: on a storage that is not resizable resize_bytes panics for
\* every requested size and leaves nbytes and the data pointer alone; a
\* resize of a tensor backed by it fails exactly when the resized view has
\* elements and needs more bytes than the storage has, and returns without
\* touching the storage otherwise.
C22_ResizeFailsWhenItMustGrow ==
    [][~storage.resizable =>
           /\ impl_last'.op = "resize_bytes" =>
                 impl_last'.status = "panicked" /\ storage' = storage
           /\ impl_last'.op = "resize" =>
                 /\ storage' = storage
                 /\ impl_last'.status = "panicked" <=>
                       /\ impls'[1].numel > 0
                       /\ ViewBytes(impls'[1]) > storage.nbytes]_vars

\* resize_bytes has panicked on a storage that is not resizable although
\* the bytes asked for are fewer than the storage has.
C22_Witness ==
    /\ impl_last.op = "resize_bytes"
    /\ impl_last.status = "panicked"
    /\ ~storage.resizable
    /\ impl_last.size_bytes < storage.nbytes
    /\ storage.data_ptr = 1

\* C25: shallow_copy_and_detach returns a new TensorImpl on the source's
\* Storage with the source's sizes, strides, storage_offset, dtype, numel
\* and contiguity flags, and leaves the source (and the Storage) unchanged.
C25_CopyEqualsSource ==
    [][StorageStep("shallow_copy_and_detach", "returned") =>
           LET source == impls[impl_last'.src]
               copy == impls'[impl_last'.v]
           IN /\ copy.sizes = source.sizes
              /\ copy.strides = source.strides
              /\ copy.storage_offset = source.storage_offset
              /\ copy.itemsize = source.itemsize
              /\ copy.numel = source.numel
              /\ copy.is_contiguous = source.is_contiguous
              /\ copy.is_non_overlapping_and_dense = source.is_non_overlapping_and_dense
              /\ impl_last'.src # impl_last'.v => impls'[impl_last'.src] = source
              /\ storage' = storage]_vars

(***************************************************************************)
(* Properties of Add                                                       *)
(***************************************************************************)

\* out.backward has returned on the sum of two distinct leaves.
AddBackwardDone == ops.pc = "done" /\ ~ops.same

\* C23: for out = Add.apply(a, b) on two distinct leaves, out.data is
\* a.data + b.data, and out.backward(None), whose seed is 1, sets a.grad to
\* seed * b.data and b.grad to seed * a.data.
C23_AddBackwardAsTested ==
    (AddBackwardDone /\ ops.seed = None) =>
        /\ ops.out.data = ops.a.data + ops.b.data
        /\ ops.a.grad = Some(1 * ops.b.data)
        /\ ops.b.grad = Some(1 * ops.a.data)

\* The test of ops.rs: a = 2, b = 3, out = 5, grad_a = 3, grad_b = 2.
C23_Witness ==
    /\ AddBackwardDone
    /\ ops.seed = None
    /\ ops.a.data = 2 /\ ops.b.data = 3
    /\ ops.out.data = 5
    /\ ops.a.grad = Some(3) /\ ops.b.grad = Some(2)

\* C24: for y = a + b built with Add and a seed gradient g, backward
\* produces grad_a == g and grad_b == g, whatever the values of a and b.
C24_AdditiveBackwardLaw ==
    AddBackwardDone =>
        /\ ops.a.grad = Some(SeedOf(ops.seed))
        /\ ops.b.grad = Some(SeedOf(ops.seed))

(***************************************************************************)
(* Properties of TensorVersion                                             *)
(***************************************************************************)

\* The live TensorImpls that stand for the logical tensor value of t.
SameValue(vs, t) == {u \in Live(vs) : vs.group[u] = vs.group[t]}

\* The live TensorImpls whose version_counter is the counter of t.
Sharers(vs, t) == {u \in Live(vs) : vs.holds[u] = vs.holds[t]}

\* C26: bump() increases current_version() by exactly one, seen through
\* every TensorImpl that shares the counter: after v = tensor_data(t), any
\* bump_version calls on t and v leave both at the number of bumps made,
\* and tensors with a counter of their own are unaffected.
C26_BumpIsSeenByEverySharer ==
    [][/\ \A u \in Live(versions') :
             CurrentVersion(versions', u) = versions'.bumps[versions'.group[u]]
       /\ versions'.last.op = "bump_version" =>
             \A u \in Live(versions) :
                 CurrentVersion(versions', u) =
                     CurrentVersion(versions, u) +
                     (IF u \in SameValue(versions, versions'.last.t) THEN 1 ELSE 0)]_vars

\* The second bump was made on a view that tensor_data returned; the tensor
\* it was taken from shows version 2 and a tensor with a counter of its own
\* shows 0.
C26_Witness ==
    /\ versions.last.op = "bump_version"
    /\ \E t \in Live(versions) : \E w \in Live(versions) :
          /\ t < versions.last.t
          /\ t \in SameValue(versions, versions.last.t)
          /\ CurrentVersion(versions, t) = 2
          /\ w \notin SameValue(versions, t)
          /\ CurrentVersion(versions, w) = 0

\* C27: unique() is true exactly when one holder shares the version
\* counter: true for a freshly constructed TensorImpl, false for the tensor
\* and for its view after tensor_data, and true again once the other
\* holders were dropped or given another counter by set_version_counter.
C27_UniqueIffOneHolder ==
    /\ \A t \in Live(versions) :
          UniqueVersion(versions, t) <=> Cardinality(Sharers(versions, t)) = 1
    /\ versions.last.op = "new" => UniqueVersion(versions, Len(versions.holds))
    /\ versions.last.op = "tensor_data" =>
          /\ ~UniqueVersion(versions, versions.last.t)
          /\ ~UniqueVersion(versions, Len(versions.holds))

\* A tensor is the only holder of its counter again after its view was
\* dropped.
C27_Witness ==
    /\ versions.last.op = "drop"
    /\ \E t \in Live(versions) :
          /\ versions.group[versions.last.t] = versions.group[t]
          /\ UniqueVersion(versions, t)

(***************************************************************************)
(* Properties of the Engine (continued)                                    *)
(***************************************************************************)

\* The count stored for Node t, a removed entry counting as zero.
StoredCount(deps, t) == IF t \in DOMAIN deps THEN deps[t] ELSE 0

\* evaluate_function is about to deliver output i to a target that has an
\* entry in dependencies.
Delivering == HasTarget /\ Target \in DOMAIN dependencies

\* C28: each delivery of a gradient over an edge lowers the stored
\* dependencies[target] by exactly one; the target is pushed to the ready
\* queue, and outstanding_tasks incremented, exactly at the delivery that
\* brings the stored count to zero; no stored count goes below zero.
C28_DeliveryLowersStoredCount ==
    [][Delivering =>
           /\ StoredCount(dependencies', Target) = dependencies[Target] - 1
           /\ StoredCount(dependencies', Target) >= 0
           /\ ready_queue' # ready_queue <=> StoredCount(dependencies', Target) = 0
           /\ outstanding_tasks' = outstanding_tasks + 1
                 <=> StoredCount(dependencies', Target) = 0]_vars

C30_MissingEdgeIsSkipped ==
    [][(InLoop /\ next_edge(Unwrap(fn_), i) = None) =>
           /\ i' = i + 1
           /\ pc' = "evaluate_function"
           /\ UNCHANGED <<taskVars, fn_>>]_vars

\* evaluate_function is at an output whose outgoing Edge has no function.
AtFunctionlessEdge ==
    /\ InLoop
    /\ next_edge(Unwrap(fn_), i) # None
    /\ Unwrap(next_edge(Unwrap(fn_), i)).function = None

\* C31: when the i-th outgoing Edge of the executed Node has no function,
\* evaluate_function discards the gradient without error and goes on with
\* the next output, leaving dependencies, outstanding_tasks and the ready
\* queue as they were.
C31_FunctionlessEdgeIsDiscarded ==
    [][AtFunctionlessEdge =>
           /\ pc' = "evaluate_function"
           /\ i' = i + 1
           /\ UNCHANGED <<taskVars, fn_>>]_vars

\* Dimension d either has size 1 or has the stride of a row-major layout:
\* the product of the sizes after it.
RowMajorAt(impl, d) ==
    impl.sizes[d] # 1 =>
        impl.strides[d] = Product(SubSeq(impl.sizes, d + 1, Len(impl.sizes)))

\* C32: after set_sizes_and_strides(sizes, strides) has returned,
\* is_contiguous() is true if and only if the tensor has no element or
\* every dimension of size other than 1 has the stride that the walk from
\* the last dimension to the first expects (the product of the sizes after
\* it); the strides of dimensions of size 1 have no influence.
C32_ContiguousIffRowMajor ==
    (impl_last.op = "set_sizes_and_strides" /\ impl_last.status = "returned") =>
        LET impl == LastImpl
        IN impl.is_contiguous <=>
               \/ Product(impl.sizes) = 0
               \/ \A d \in 1..Len(impl.sizes) : RowMajorAt(impl, d)

\* set_sizes_and_strides has returned a tensor that has elements and is
\* contiguous although a dimension of size 1 has a stride that is not the
\* product of the sizes after it.
C32_Witness ==
    /\ impl_last.op = "set_sizes_and_strides"
    /\ impl_last.status = "returned"
    /\ LastImpl.numel > 0
    /\ LastImpl.is_contiguous
    /\ \E d \in 1..Len(LastImpl.sizes) :
          /\ LastImpl.sizes[d] = 1
          /\ LastImpl.strides[d] # Product(SubSeq(LastImpl.sizes, d + 1, Len(LastImpl.sizes)))

\* C33: grad_accumulator(tensor) returns None and creates no Node when the
\* tensor has no autograd metadata or does not require grad; when the tensor
\* has a grad_fn it panics, creates no Node and leaves the memoized
\* reference as it was.
C33_NoAccumulatorForNonLeaf ==
    [][last_call'.op = "grad_accumulator" =>
           LET t == Unwrap(last_call'.tensor)
           IN /\ (~tensors[t].autograd_meta \/ ~RequiresGrad(tensors, t)) =>
                     /\ last_call'.status = "ok"
                     /\ last_call'.result = None
                     /\ built' = built
                     /\ tensors' = tensors
              /\ GradFn(tensors, t) # None =>
                     /\ last_call'.status = "panicked"
                     /\ last_call'.result = None
                     /\ built' = built
                     /\ tensors'[t].grad_accumulator = tensors[t].grad_accumulator]_vars

\* grad_accumulator has panicked on a tensor that has a grad_fn and a
\* memoized accumulator.
C33_Witness ==
    /\ last_call.op = "grad_accumulator"
    /\ last_call.status = "panicked"
    /\ GradFn(tensors, Unwrap(last_call.tensor)) # None
    /\ tensors[Unwrap(last_call.tensor)].grad_accumulator # None

\* C34: while evaluate_function runs a unit inside Engine::execute (the
\* Node's apply function included), the global grad mode is the create_graph
\* flag of the call; between units and after execute has returned it is the
\* mode the caller made the call under.
C34_GradModeOfTheTask ==
    /\ pc \in {"evaluate_function", "hung"} => grad_mode = create_graph
    /\ pc \in {"thread_main", "returned"} => grad_mode = mode_before

\* execute has returned after the apply of a Node other than the root, with
\* a create_graph flag that differs from the caller's grad mode.
C34_Witness ==
    /\ pc = "returned"
    /\ create_graph # mode_before
    /\ \E n \in DOMAIN applied : n # GraphRoot /\ applied[n] > 0

(***************************************************************************)
(* Properties of TensorOptions                                             *)
(***************************************************************************)
\* The option of b when b has it set, else that of a.
Merged(a_opt, b_opt) == IF b_opt # None THEN b_opt ELSE a_opt

\* C35: r = a.merge_in(b) has, for each of device, dtype, layout and
\* requires_grad, the value of b when b has it set, else the value of a when
\* a has it set, else it is unset; its memory format and its pinned-memory
\* fields are those of b; a and b are as they were before the call.
C35_MergeInPrefersArgument ==
    [][(options.r = None /\ options'.r # None) =>
           LET a == options.a
               b == options.b
               r == Unwrap(options'.r)
           IN /\ DeviceOpt(r) = Merged(DeviceOpt(a), DeviceOpt(b))
              /\ DtypeOpt(r) = Merged(DtypeOpt(a), DtypeOpt(b))
              /\ LayoutOpt(r) = Merged(LayoutOpt(a), LayoutOpt(b))
              /\ RequiresGradOpt(r) = Merged(RequiresGradOpt(a), RequiresGradOpt(b))
              /\ MemoryFormatOpt(r) = MemoryFormatOpt(b)
              /\ r.memory_format = b.memory_format
              /\ r.pinned_memory = b.pinned_memory
              /\ r.has_pinned_memory = b.has_pinned_memory
              /\ options'.a = a
              /\ options'.b = b]_vars

\* a.merge_in(b) has returned where b has an option set that a has set to
\* another value, a has an option set that b has not, and a has a memory
\* format set that b has not.
C35_Witness ==
    /\ options.r # None
    /\ HasDtype(options.a) /\ HasDtype(options.b)
    /\ options.a.dtype # options.b.dtype
    /\ \/ HasRequiresGrad(options.a) /\ ~HasRequiresGrad(options.b)
       \/ HasDevice(options.a) /\ ~HasDevice(options.b)
       \/ HasLayout(options.a) /\ ~HasLayout(options.b)

\* The options that the last constructor call built.
LastBuilt == options[options.last.target]

\* No option of o other than the one named is set.
OnlySet(o, name) ==
    /\ name # "device" => ~HasDevice(o)
    /\ name # "dtype" => ~HasDtype(o)
    /\ name # "layout" => ~HasLayout(o)
    /\ name # "requires_grad" => ~HasRequiresGrad(o)
    /\ name # "memory_format" => ~HasMemoryFormat(o)

\* C36: each with_X constructor of TensorOptions yields options in which X
\* is set to its argument (has_X is true, the X_opt getter returns Some(X),
\* the X getter returns X) and every other option is unset.
C36_WithSetsItsOption ==
    LET x == options.last.x
        o == LastBuilt
    IN /\ options.last.op \in {"with_device", "with_device_type"} =>
              HasDevice(o) /\ DeviceOpt(o) = Some(x) /\ DeviceOf(o) = x /\ OnlySet(o, "device")
       /\ options.last.op = "with_layout" =>
              HasLayout(o) /\ LayoutOpt(o) = Some(x) /\ LayoutOf(o) = x /\ OnlySet(o, "layout")
       /\ options.last.op = "with_dtype" =>
              HasDtype(o) /\ DtypeOpt(o) = Some(x) /\ DtypeOf(o) = x /\ OnlySet(o, "dtype")
       /\ options.last.op = "with_memory_format" =>
              HasMemoryFormat(o) /\ MemoryFormatOpt(o) = Some(x) /\ OnlySet(o, "memory_format")
       /\ options.last.op = "with_requires_grad_" =>
              /\ HasRequiresGrad(o) /\ RequiresGradOpt(o) = Some(x)
              /\ RequiresGradOf(o) = x /\ OnlySet(o, "requires_grad")

(***************************************************************************)
(* Properties of the forward pass (frame)                                  *)
(***************************************************************************)
\* C37: a forward operation that is not in place and returns leaves the
\* grad_fn and the output_nr of every tensor that existed before the call,
\* its inputs among them, as they were; a leaf input is still a leaf.
C37_ForwardKeepsInputHistory ==
    [][(last_call'.op \notin {"none", "grad_accumulator", "transpose_"}
            /\ last_call'.status = "ok") =>
           \A t \in 1..Len(tensors) :
               /\ GradFn(tensors', t) = GradFn(tensors, t)
               /\ tensors'[t].output_nr = tensors[t].output_nr]_vars

(***************************************************************************)
(* Properties of resize (failure)                                          *)
(***************************************************************************)
\* C38: a resize that fails because the Storage is not resizable leaves the
\* sizes, strides, numel and contiguity flags of the tensor as they were
\* before the call, so that a view that fitted into the storage still fits.
C38_FailedResizeKeepsTensor ==
    [][(impl_last'.op = "resize" /\ impl_last'.status = "panicked") =>
           LET v == impl_last'.v
           IN /\ impls'[v] = impls[v]
              /\ ViewBytes(impls[v]) <= storage.nbytes =>
                     ViewBytes(impls'[v]) <= storage'.nbytes]_vars

(***************************************************************************)
(* Properties of Add (one Variable as both operands)                       *)
(***************************************************************************)
\* C39: for out = Add.apply(a, a), with one Variable as both operands,
\* out.backward completes: AddBackWard::apply does not borrow the operand
\* while it holds a mutable borrow of the same cell.
C39_SameOperandBackwardCompletes ==
    (ops.pc \in {"done", "panicked"} /\ ops.same) => ops.pc = "done"

(***************************************************************************)
(* The Engine run in one fixed order: compute_dependencies takes the last  *)
(* Node of its work list (Vec::pop), the ready queue hands out its oldest  *)
(* unit.  What this run executes is what every other order is compared     *)
(* with.                                                                   *)
(***************************************************************************)
\* The loop of compute_dependencies, the last Node of the work list first.
RECURSIVE DependenciesInOrder(_)
DependenciesInOrder(st) ==
    IF st.queue = <<>> THEN st.dependencies
    ELSE LET node == st.queue[Len(st.queue)]
             st0 == [st EXCEPT !.queue = RemoveAt(st.queue, Len(st.queue))]
         IN DependenciesInOrder(IF NextEdgesOf(node) = None THEN st0
                                ELSE VisitEdges(Unwrap(NextEdgesOf(node)), 1, st0))

\* The loop of evaluate_function for Node n from output k on.
RECURSIVE EvaluateInOrder(_, _, _)
EvaluateInOrder(st, n, k) ==
    IF k >= NumOutputs(n) THEN st
    ELSE IF next_edge(n, k) = None THEN [st EXCEPT !.pc = "hung"]
    ELSE IF Unwrap(next_edge(n, k)).function = None THEN [st EXCEPT !.pc = "panicked"]
    ELSE LET next == Unwrap(next_edge(n, k))
             t == Unwrap(next.function)
         IN IF t \notin DOMAIN st.dependencies THEN [st EXCEPT !.pc = "panicked"]
            ELSE LET count == DecrementedCount(st.dependencies[t])
                     is_ready == IsReady(count)
                     input_buffer == InputBufferAdd(InputBufferNew(num_inputs(t)),
                                                    next.input_nr, {<<n, k>>})
                 IN EvaluateInOrder(
                        [st EXCEPT !.dependencies =
                                       IF is_ready THEN RemoveEntry(@, t)
                                       ELSE [@ EXCEPT ![t] = StoredAfterDecrement(@)],
                                   !.ready_queue =
                                       IF is_ready THEN Push(@, NodeTask(t, input_buffer))
                                       ELSE @,
                                   !.outstanding_tasks =
                                       IF is_ready THEN AfterPush(@) ELSE @],
                        n, k + 1)

\* The loop of thread_main, the oldest unit of the ready queue first.
RECURSIVE ThreadMainInOrder(_)
ThreadMainInOrder(st) ==
    LET unit == st.ready_queue[1]
        popped == [st EXCEPT !.ready_queue = RemoveAt(@, 1),
                             !.executed = @ \cup {<<unit.fn_, unit.inputs_>>}]
        after == EvaluateInOrder(popped, unit.fn_, 0)
    IN IF after.pc # "thread_main" THEN after
       ELSE IF after.outstanding_tasks - 1 = 0
            THEN [after EXCEPT !.outstanding_tasks = 0, !.pc = "returned"]
            ELSE ThreadMainInOrder([after EXCEPT !.outstanding_tasks = @ - 1])

\* The whole call in that order, for the graph and the entry point at hand.
ExecuteInOrder ==
    ThreadMainInOrder(
        [dependencies |-> DependenciesInOrder(
                              [dependencies |-> <<>>, seen |-> {},
                               queue |-> IF entry = "execute" THEN <<GraphRoot>> ELSE <<>>]),
         ready_queue |-> <<NodeTask(GraphRoot, InputBufferNew(0))>>,
         outstanding_tasks |-> 1,
         executed |-> {},
         pc |-> "thread_main"])

\* The call has come to its end: it returned, panicked, or loops for ever.
Ended == pc \in {"returned", "panicked", "hung"}

\* C40: for a fixed graph and fixed seed gradients, the units that
\* Engine::execute has executed when it ends, each a Node with the input
\* buffer it was executed with, are the same for every order in which the
\* ready queue hands out units and compute_dependencies traverses the graph:
\* they are those of the run in the fixed order.
C40_ExecutionIsOrderIndependent ==
    Ended => executed = ExecuteInOrder.executed

====
